---- MODULE Spec2Model ----
(***************************************************************************)
(* Model of the browser-session facade of src/gbp_uploader.py:             *)
(* PlaywrightManager (start / save_storage_state / close), the Google      *)
(* login probes, the single-page upload flow (_async_upload_logic and      *)
(* GBPUploader.upload_images) and the four synchronous entry points        *)
(* check_login, login_to_google, manual_login and upload_to_gbp.           *)
(*                                                                         *)
(* Every awaited browser call is a step whose outcome (completed, timed    *)
(* out, raised) is chosen by the environment.  One facade call runs at a   *)
(* time; the session-state file is the only state that survives a call.    *)
(***************************************************************************)
EXTENDS Integers, Sequences, FiniteSets, TLC

\* ------------------------------------------------------------------ bounds
\* number of facade calls made in one behaviour
MaxCalls == 3
\* largest retries argument given to _make_request
MaxRetries == 3
\* longest src string given to _get_cleaned_image_url, in fragments
MaxSrcLen == 4
\* largest max_page a gallery reports
MaxPage == 3
\* largest max_images_to_fetch configured
MaxImages == 3
\* most image elements on one gallery page
MaxImgs == 3
\* longest text of the pagination element, in characters
MaxTextLen == 5
\* most URLs given to download_images
MaxUrls == 3
\* one-second polls that fit in the wait of login(); stands for the 300 of
\* timeout_seconds
MaxPolls == 3
MaxFieldLen == 2
MaxClicks == 3
MaxUploadClicks == 2
MaxWorkers == 3

\* ------------------------------------------------------------------ state
VARIABLES
    op,             \* facade entry point being executed ("none" before the first)
    pc,             \* position inside the entry point
    ret,            \* what the entry point gave its caller: "none" while running
    ncalls,         \* facade calls made so far
    pending,        \* completion of the try block, delivered after the finally
    file,           \* session-state file: 0 absent, n > 0 the n-th snapshot written
    file0,          \* value of file when the current call began
    loggedBefore,   \* a login entry point returned True before the current call
    savedLive,      \* the file was written in this call from a context not yet closed
    playwright,     \* pw_manager.playwright : "none" | "open" | "closed"
    browser,        \* pw_manager.browser
    context,        \* pw_manager.context
    restored,       \* context_options carried storage_state
    launches,       \* browser families launched in this call, in order
    startCount,     \* invocations of start() in this call
    startFailed,    \* start() raised in this call
    closeInvoked,   \* close() was entered in this call
    closeCalls,     \* teardown calls close() issued, in order
    page,           \* page of the single-page upload flow
    logged_in,      \* result of the is_logged_in probe of this call
    owner_probe,    \* 1 s probe for the owner-check control
    add_probe,      \* 1 s probe for the add-photo control
    owner_branch,   \* outcome of the ownership-confirmation branch
    u_add,          \* upload_images: 60 s wait for the add-photo control
    u_iframe,       \* upload_images: 60 s wait for the upload iframe
    u_chooser,      \* upload_images: outcome of taking the file chooser (552-557)
    u_set,          \* upload_images: file_chooser.set_files(image_paths)
    u_hidden,       \* upload_images: 120 s wait for the iframe to hide
    upload_success, \* value returned by upload_images
    diag,           \* diagnostics captured by _save_error_page / screenshot
    trace,          \* steps of the upload flow in the order they ran
    \* ---- _make_request (hpb_scraper.py)
    rq_pc,          \* "idle" | "loop" | "done"
    rq_retries,     \* the retries argument
    rq_i,           \* loop variable i of `for i in range(retries)`
    rq_log,         \* GET attempts (their outcome) and sleeps, in order
    rq_result,      \* "none" | "response" | "None"
    \* ---- _get_cleaned_image_url
    cl_pc,          \* "idle" | "first" | "again" | "done"
    cl_src,         \* the src argument
    cl_pattern,     \* the cleanup_pattern argument
    cl_result,      \* result of the call on src
    cl_again,       \* result of the call on that result
    \* ---- fetch_latest_style_images
    ft_pc,          \* "idle" | "call" | "page" | "img" | "done"
    ft_caller,      \* "direct" | "forward" | "backward": who calls, with which order
    ft_selector,    \* the style_image selector is configured
    ft_pattern,     \* image_url_cleanup_pattern
    ft_max_page,    \* max_page returned by _get_style_page_info
    ft_max_images,  \* max_images_to_fetch
    ft_page_num,    \* page_num of the walk
    ft_left,        \* elements of the current page still to process
    ft_src,         \* src of the element processed last
    ft_cleaned,     \* its cleaned URL (<<>> before the first element)
    ft_dup,         \* an element was skipped as already seen
    ft_unique,      \* unique_image_urls
    ft_list,        \* fetched_urls_list
    ft_visited,     \* page numbers requested, in order
    ft_logged,      \* what the log says of the page requested last
    ft_first_empty, \* the first page requested had no image element
    ft_sleeps,      \* inter-page delays (212) made so far
    ft_status,      \* "none" | "returned" | "TypeError"
    ft_result,      \* the returned list
    \* ---- _get_style_page_info
    pi_pc,          \* "idle" | "call" | "done"
    pi_selector,    \* the max_page_element selector is configured
    pi_case,        \* which path the call took
    pi_text,        \* text of the pagination element, stripped
    pi_max_page,    \* the max_page returned
    pi_status,      \* "none" | "returned" | "raised"
    \* ---- download_images
    dl_pc,          \* "idle" | "call" | "loop" | "done"
    dl_urls,        \* image_urls: for each, the extension of its path and what
                    \* a fetch of it yields
    dl_dir,         \* temp_dir: "exists" | "absent" | "failed" (cannot be made)
    dl_i,           \* index of the URL the loop is at, from 1
    dl_errors,      \* indices whose file could not be written
    dl_paths,       \* downloaded_paths: <<index in the filename, extension>>
    dl_status,      \* "none" | "returned"
    dl_result,      \* the returned list
    \* ---- GoogleAuthManager.is_logged_in
    pr_pc,          \* "idle" | "start" | "read_url" | "goto" | "classify" |
                    \* "except" | "finally" | "done"
    pr_supplied,    \* the caller passed a page
    pr_page,        \* check_page: "none" | "open" | "closed"
    pr_should_close,\* should_close_page
    pr_url,         \* current_url
    pr_navigated,   \* the goto at 152 was made
    pr_pending,     \* value of the return statement reached: "none" | "True" | "False"
    pr_raised,      \* call that raised: "none" | "new_page" | "goto" | "close"
    pr_result,      \* what the caller gets: "none" | "True" | "False" | "raise"
    \* ---- GoogleAuthManager.login
    lg_pc,          \* "idle" | "new_page" | "goto" | "poll" | "inner_except" |
                    \* "close_page" | "after_close" | "final_check" | "done"
    lg_page,        \* the login page: "none" | "open" | "closed"
    lg_url,         \* current_url read at the last poll
    lg_polls,       \* one-second sleeps of the wait loop so far
    lg_success,     \* success
    lg_exit,        \* how the wait ended: "none" | "closed" | "pattern" |
                    \* "moved" | "timeout"
    lg_probes,      \* is_logged_in() calls made: where and with what outcome
    lg_raised,      \* call whose exception reached the outer except, or "none"
    lg_result       \* "none" | "True" | "False"

VARIABLES
    ui_pc,          \* position inside upload_images
    ui_supplied,    \* the caller passed a page (495-497)
    ui_page,        \* the upload page: "none" | "open" | "closed"
    ui_failed,      \* the step that timed out or raised, "none" otherwise
    ui_diag,        \* base names handed to _save_error_page with the page open
    ui_closes,      \* close() calls upload_images made on the page
    ui_pending,     \* completion of the try block, delivered after the finally
    ui_result       \* what the caller got: "none" | "True" | "False" | "raise"

VARIABLES
    ml_pc,          \* position inside manual_login
    ml_page,        \* the page manual_login opened: "none" | "open" | "closed"
    ml_signal,      \* login_completed, set by the console listener (329-336)
    ml_polls,       \* seconds slept in the wait loop
    ml_exit,        \* how the wait ended: "none" | "signal" | "closed" | "expired"
    ml_probe,       \* what is_logged_in() gave at 434, "none" if not called
    ml_closes,      \* page.close() calls made by manual_login
    ml_raised,      \* the call that raised, "none" otherwise
    ml_callback,    \* a progress_callback was passed
    ml_notes,       \* messages handed to progress_callback so far
    ml_result       \* what the caller got: "none" | "True" | "False"

VARIABLES
    mw_pc,           \* the fetch chain: "idle" | "salon_name" | "style_images"
    mw_text,         \* content of hpb_url_input, a sequence of characters
    mw_fetch,        \* fetch_button.isEnabled()
    mw_upload,       \* upload_button.isEnabled()
    mw_select_all,   \* select_all_button.isEnabled()
    mw_deselect_all, \* deselect_all_button.isEnabled()
    mw_workers,      \* workers handed to the thread pool so far
    mw_warnings,     \* warning dialogs shown so far
    mw_calls,        \* fetch_images calls so far
    mw_arg,          \* the field content at the last fetch_images call
    mw_last          \* what the last fetch_images call did: "none" | "warned" | "started"

VARIABLES
    wk_threads,      \* threadpool.maxThreadCount()
    wk_button,       \* upload_button.isEnabled()
    wk_shown,        \* number of entries of image_checkboxes
    wk_checked,      \* number of them that are checked
    wk_workers,      \* the Worker objects handed to the thread pool, in order
    wk_queue,        \* signals queued for the main thread: <<worker, signal>>
    wk_clicks,       \* clicks on the upload button so far
    wk_logins,       \* perform_google_login calls made by proceed_with_upload
    wk_warnings      \* warning dialogs shown by upload_selected_images

rqVars == <<rq_pc, rq_retries, rq_i, rq_log, rq_result>>
\* state of the scraper and of the stand-alone login probes; the entry points of
\* gbp_uploader.py never touch it
clVars == <<cl_pc, cl_src, cl_pattern, cl_result, cl_again>>
ftVars == <<ft_pc, ft_caller, ft_selector, ft_pattern, ft_max_page, ft_max_images,
            ft_page_num, ft_left, ft_src, ft_cleaned, ft_dup, ft_unique, ft_list,
            ft_visited, ft_logged, ft_first_empty, ft_sleeps, ft_status, ft_result>>
piVars == <<pi_pc, pi_selector, pi_case, pi_text, pi_max_page, pi_status>>
dlVars == <<dl_pc, dl_urls, dl_dir, dl_i, dl_errors, dl_paths, dl_status, dl_result>>
prVars == <<pr_pc, pr_supplied, pr_page, pr_should_close, pr_url, pr_navigated,
            pr_pending, pr_raised, pr_result>>
lgVars == <<lg_pc, lg_page, lg_url, lg_polls, lg_success, lg_exit, lg_probes,
            lg_raised, lg_result>>
uiVars == <<ui_pc, ui_supplied, ui_page, ui_failed, ui_diag, ui_closes, ui_pending,
           ui_result>>
mlVars == <<ml_pc, ml_page, ml_signal, ml_polls, ml_exit, ml_probe, ml_closes,
           ml_raised, ml_callback, ml_notes, ml_result>>
mwVars == <<mw_pc, mw_text, mw_fetch, mw_upload, mw_select_all, mw_deselect_all,
           mw_workers, mw_warnings, mw_calls, mw_arg, mw_last>>
wkVars == <<wk_threads, wk_button, wk_shown, wk_checked, wk_workers,
           wk_queue, wk_clicks, wk_logins, wk_warnings>>
auxVars == <<rqVars, clVars, ftVars, piVars, dlVars, prVars, lgVars, uiVars, mlVars,
            mwVars, wkVars>>

ctlVars  == <<op, ncalls, auxVars>>
fileVars == <<file, file0, loggedBefore, savedLive>>
sessVars == <<playwright, browser, context, restored, launches, startCount,
              startFailed, closeInvoked, closeCalls>>
probeVars == <<logged_in, owner_probe, add_probe, owner_branch>>
upVars == <<u_add, u_iframe, u_chooser, u_set, u_hidden>>
outer == <<op, ncalls, ret, file, file0, loggedBefore, savedLive, playwright,
           browser, context, restored, launches, startCount, startFailed,
           closeInvoked, closeCalls, auxVars>>
flowVars == <<page, logged_in, owner_probe, add_probe, owner_branch, u_add,
              u_iframe, u_chooser, u_set, u_hidden, upload_success, diag, trace>>
facadeVars ==
    <<op, pc, ret, ncalls, pending, file, file0, loggedBefore, savedLive,
      playwright, browser, context, restored, launches, startCount,
      startFailed, closeInvoked, closeCalls, page, logged_in, owner_probe,
      add_probe, owner_branch, u_add, u_iframe, u_chooser, u_set, u_hidden,
      upload_success, diag, trace>>
vars == <<facadeVars, auxVars>>
\* what each part of the scraper leaves alone
notRq == <<facadeVars, clVars, ftVars, piVars, dlVars, prVars, lgVars, uiVars, mlVars,
          mwVars,
          wkVars>>
notCl == <<facadeVars, rqVars, ftVars, piVars, dlVars, prVars, lgVars, uiVars, mlVars,
          mwVars,
          wkVars>>
notFt == <<facadeVars, rqVars, clVars, piVars, dlVars, prVars, lgVars, uiVars, mlVars,
          mwVars,
          wkVars>>
notPi == <<facadeVars, rqVars, clVars, ftVars, dlVars, prVars, lgVars, uiVars, mlVars,
          mwVars,
          wkVars>>
notDl == <<facadeVars, rqVars, clVars, ftVars, piVars, prVars, lgVars, uiVars, mlVars,
          mwVars,
          wkVars>>
notPr == <<facadeVars, rqVars, clVars, ftVars, piVars, dlVars, lgVars, uiVars, mlVars,
          mwVars,
          wkVars>>
notLg == <<facadeVars, rqVars, clVars, ftVars, piVars, dlVars, prVars, uiVars, mlVars,
          mwVars,
          wkVars>>
notUi == <<facadeVars, rqVars, clVars, ftVars, piVars, dlVars, prVars, lgVars, mlVars,
          mwVars,
          wkVars>>
notMl == <<facadeVars, rqVars, clVars, ftVars, piVars, dlVars, prVars, lgVars, uiVars,
          mwVars,
          wkVars>>
notMw == <<facadeVars, rqVars, clVars, ftVars, piVars, dlVars, prVars, lgVars, uiVars,
          mlVars,
          wkVars>>
notWk == <<facadeVars, rqVars, clVars, ftVars, piVars, dlVars, prVars, lgVars, uiVars,
          mlVars, mwVars>>

Facades == {"check_login", "login_to_google", "manual_login", "upload_to_gbp"}
LoginFacades == {"login_to_google", "manual_login"}

Range(s) == {s[i] : i \in DOMAIN s}

\* ------------------------------------------------------- URL classification
\* A URL is a sequence of fragments; `pattern in url` is a contiguous match.
InURL(pattern, url) ==
    \E i \in 1..(Len(url) - Len(pattern) + 1) :
        SubSeq(url, i, i + Len(pattern) - 1) = pattern

\* URLs the sign-in entry point can land on after the navigation
LandingURLs ==
    { <<"https://", "myaccount.google.com", "/">>,
      <<"https://", "accounts.google.com", "/ManageAccount">>,
      <<"https://", "accounts.google.com", "/ServiceLogin", "?continue=">>,
      <<"https://", "accounts.google.com", "/v3/signin/identifier">> }

\* gbp_uploader.py 158-160
IsLoggedInURL(current_url) ==
    \/ InURL(<<"myaccount.google.com">>, current_url)
    \/ InURL(<<"accounts.google.com", "/ManageAccount">>, current_url)
    \/ ~ InURL(<<"accounts.google.com", "/ServiceLogin">>, current_url)

\* outcomes of is_logged_in: the classification of the landing URL, or False
\* when page creation or the navigation raised (except at 169-171)
IsLoggedInResults == {IsLoggedInURL(u) : u \in LandingURLs} \cup {FALSE}

\* ------------------------------------------------------- facade decisions
\* browser family each entry point constructs its PlaywrightManager with
\* (665, 679, 698, 710; default of __init__ at 19)
BrowserTypeOf(f) == "chromium"

\* os.path.exists(self.storage_state_path) at 69
HasStorageState_never(f) == FALSE
HasStorageState(f) == f # 0

\* what a raise out of start() becomes: check_login, login_to_google and
\* manual_login have try/finally only; _async_upload_logic calls start()
\* inside its try, whose `except Exception` returns False (842-852)
StartFailureOutcome(f) == IF f = "upload_to_gbp" THEN "False" ELSE "raise"

\* what a raise out of the state save becomes (687, 720: no handler; 838:
\* inside the try of _async_upload_logic)
SaveFailureOutcome(f) == IF f = "upload_to_gbp" THEN "False" ELSE "raise"

\* `if login_success:` at 686 and 718, `if upload_success:` at 836
ShouldSave_loginOnly(f, success) == success /\ f \in LoginFacades
ShouldSave(f, success) == success /\ f # "check_login"

\* the finally of every entry point runs close() whatever the try produced
AfterTry_noFinally(f, outcome) == IF outcome = "raise" THEN "return" ELSE "close_context"
AfterTry(f, outcome) == "close_context"

\* ------------------------------------------------------------------- Init
RqIdle ==
    /\ rq_pc = "idle" /\ rq_retries = 0 /\ rq_i = 0 /\ rq_log = <<>>
    /\ rq_result = "none"

ClIdle ==
    /\ cl_pc = "idle" /\ cl_src = <<>> /\ cl_pattern = <<>>
    /\ cl_result = <<>> /\ cl_again = <<>>

FtIdle ==
    /\ ft_pc = "idle" /\ ft_caller = "direct" /\ ft_selector = TRUE
    /\ ft_pattern = <<>> /\ ft_max_page = 1 /\ ft_max_images = 0
    /\ ft_page_num = 0 /\ ft_left = 0 /\ ft_src = <<>> /\ ft_cleaned = <<>>
    /\ ft_dup = FALSE /\ ft_unique = {} /\ ft_list = <<>> /\ ft_visited = <<>>
    /\ ft_logged = "none" /\ ft_first_empty = FALSE /\ ft_sleeps = 0
    /\ ft_status = "none" /\ ft_result = <<>>

PiIdle ==
    /\ pi_pc = "idle" /\ pi_selector = TRUE /\ pi_case = "none"
    /\ pi_text = <<>> /\ pi_max_page = 1 /\ pi_status = "none"

DlIdle ==
    /\ dl_pc = "idle" /\ dl_urls = <<>> /\ dl_dir = "exists" /\ dl_i = 1
    /\ dl_errors = {} /\ dl_paths = <<>> /\ dl_status = "none" /\ dl_result = <<>>

PrIdle ==
    /\ pr_pc = "idle" /\ pr_supplied = FALSE /\ pr_page = "none"
    /\ pr_should_close = FALSE /\ pr_url = <<>> /\ pr_navigated = FALSE
    /\ pr_pending = "none" /\ pr_raised = "none" /\ pr_result = "none"

LgIdle ==
    /\ lg_pc = "idle" /\ lg_page = "none" /\ lg_url = <<>> /\ lg_polls = 0
    /\ lg_success = FALSE /\ lg_exit = "none" /\ lg_probes = <<>>
    /\ lg_raised = "none" /\ lg_result = "none"

UiIdle ==
    /\ ui_pc = "idle" /\ ui_supplied = FALSE /\ ui_page = "none"
    /\ ui_failed = "none" /\ ui_diag = {} /\ ui_closes = 0
    /\ ui_pending = "none" /\ ui_result = "none"

MlIdle ==
    /\ ml_pc = "idle" /\ ml_page = "none" /\ ml_signal = FALSE /\ ml_polls = 0
    /\ ml_exit = "none" /\ ml_probe = "none" /\ ml_closes = 0
    /\ ml_raised = "none" /\ ml_result = "none"
    /\ ml_callback = FALSE /\ ml_notes = <<>>

MwIdle ==
    /\ mw_pc = "idle" /\ mw_text = <<>> /\ mw_fetch = TRUE /\ mw_upload = FALSE
    /\ mw_select_all = FALSE /\ mw_deselect_all = FALSE /\ mw_workers = 0
    /\ mw_warnings = 0 /\ mw_calls = 0 /\ mw_arg = <<>> /\ mw_last = "none"

WkIdle ==
    /\ wk_threads = 1 /\ wk_button = FALSE /\ wk_shown = 0 /\ wk_checked = 0
    /\ wk_workers = <<>> /\ wk_queue = <<>> /\ wk_clicks = 0
    /\ wk_logins = 0 /\ wk_warnings = 0

AuxIdle == RqIdle /\ ClIdle /\ FtIdle /\ PiIdle /\ DlIdle /\ PrIdle /\ LgIdle
    /\ UiIdle /\ MlIdle /\ MwIdle /\ WkIdle

FacadeInit ==
    /\ op = "none" /\ pc = "idle" /\ ret = "none" /\ ncalls = 0
    /\ pending = "none"
    /\ file = 0 /\ file0 = 0 /\ loggedBefore = FALSE /\ savedLive = FALSE
    /\ playwright = "none" /\ browser = "none" /\ context = "none"
    /\ restored = FALSE /\ launches = <<>> /\ startCount = 0
    /\ startFailed = FALSE /\ closeInvoked = FALSE /\ closeCalls = <<>>
    /\ page = "none" /\ logged_in = "none"
    /\ owner_probe = "none" /\ add_probe = "none" /\ owner_branch = "none"
    /\ u_add = "none" /\ u_iframe = "none" /\ u_chooser = "none"
    /\ u_set = "none" /\ u_hidden = "none" /\ upload_success = "none"
    /\ diag = {} /\ trace = <<>>

Init == FacadeInit /\ AuxIdle

\* a fresh flow: the locals of one entry-point invocation
FreshFlow ==
    /\ page' = "none" /\ logged_in' = "none"
    /\ owner_probe' = "none" /\ add_probe' = "none" /\ owner_branch' = "none"
    /\ u_add' = "none" /\ u_iframe' = "none" /\ u_chooser' = "none"
    /\ u_set' = "none" /\ u_hidden' = "none" /\ upload_success' = "none"
    /\ diag' = {} /\ trace' = <<>>

\* ---------------------------------------------------------- entry points
\* The caller invokes an entry point; each one builds its own
\* PlaywrightManager (665, 679, 698, 710), whose handles start as None (20-22).
Call(f) ==
    /\ pc = "idle" /\ ncalls < MaxCalls
    /\ op' = f /\ pc' = "start" /\ ret' = "none" /\ ncalls' = ncalls + 1
    /\ pending' = "none"
    /\ file0' = file
    /\ loggedBefore' = (loggedBefore \/ (op \in LoginFacades /\ ret = "True"))
    /\ savedLive' = FALSE
    /\ playwright' = "none" /\ browser' = "none" /\ context' = "none"
    /\ restored' = FALSE /\ launches' = <<>> /\ startCount' = 0
    /\ startFailed' = FALSE /\ closeInvoked' = FALSE /\ closeCalls' = <<>>
    /\ FreshFlow
    /\ UNCHANGED <<file, auxVars>>

check_login == Call("check_login")
login_to_google == Call("login_to_google")
manual_login == Call("manual_login")
upload_to_gbp == Call("upload_to_gbp")

\* first position of the work after start() returned the context
WorkEntry(f) ==
    CASE f = "check_login" -> "check_google_login_status"
      [] f = "login_to_google" -> "perform_google_login"
      [] f = "manual_login" -> "perform_manual_login"
      [] f = "upload_to_gbp" -> "new_page"

\* ---------------------------------------------------- PlaywrightManager
\* start() 36-101, every step completing
start ==
    /\ pc = "start"
    /\ startCount' = startCount + 1
    /\ playwright' = "open"
    /\ browser' = "open"
    /\ launches' = Append(launches, BrowserTypeOf(op))
    /\ context' = "open"
    /\ restored' = HasStorageState(file)
    /\ pc' = WorkEntry(op)
    /\ UNCHANGED <<ctlVars, ret, pending, fileVars, startFailed, closeInvoked,
                   closeCalls, flowVars>>

\* start(): the launch at 54-57 raises; the engine handle is already set (39)
start_launch_fails ==
    /\ pc = "start"
    /\ startCount' = startCount + 1
    /\ playwright' = "open"
    /\ launches' = Append(launches, BrowserTypeOf(op))
    /\ startFailed' = TRUE
    /\ pending' = StartFailureOutcome(op)
    /\ pc' = AfterTry(op, pending')
    /\ UNCHANGED <<ctlVars, ret, fileVars, browser, context, restored,
                   closeInvoked, closeCalls, flowVars>>

\* start(): new_context at 73 raises; engine and browser handles are set
start_context_fails ==
    /\ pc = "start"
    /\ startCount' = startCount + 1
    /\ playwright' = "open"
    /\ browser' = "open"
    /\ launches' = Append(launches, BrowserTypeOf(op))
    /\ startFailed' = TRUE
    /\ pending' = StartFailureOutcome(op)
    /\ pc' = AfterTry(op, pending')
    /\ UNCHANGED <<ctlVars, ret, fileVars, context, restored, closeInvoked,
                   closeCalls, flowVars>>

\* save_storage_state 103-109 (and context.storage_state at 720): with a
\* context the snapshot is written to the configured path, or the call raises
\* and leaves the file as it was
save_storage_state ==
    /\ pc = "save"
    /\ context # "none"
    /\ \/ /\ file' = file + 1
          /\ savedLive' = (context = "open" /\ ~ closeInvoked)
          /\ pending' = "True"
          /\ pc' = IF op = "upload_to_gbp" THEN "finally_page"
                                          ELSE AfterTry(op, pending')
       \/ /\ UNCHANGED <<file, savedLive>>
          /\ IF SaveFailureOutcome(op) = "raise"
             THEN pending' = "raise" /\ pc' = AfterTry(op, pending')
             ELSE pc' = "except" /\ UNCHANGED pending
    /\ UNCHANGED <<ctlVars, ret, file0, loggedBefore, sessVars, flowVars>>

\* close() 111-119, first statement pair: `if self.context: await
\* self.context.close()`.  A raise leaves close() at once.
close_context ==
    /\ pc = "close_context"
    /\ closeInvoked' = TRUE
    /\ IF context = "none"
       THEN /\ pc' = "close_browser"
            /\ UNCHANGED <<context, closeCalls, pending>>
       ELSE /\ closeCalls' = Append(closeCalls, "context")
            /\ \/ /\ context' = "closed" /\ pc' = "close_browser"
                  /\ UNCHANGED pending
               \/ /\ pending' = "raise" /\ pc' = "return"
                  /\ UNCHANGED context
    /\ UNCHANGED <<ctlVars, ret, fileVars, playwright, browser, restored,
                   launches, startCount, startFailed, flowVars>>

\* close(): `if self.browser: await self.browser.close()` 115-116
close_browser ==
    /\ pc = "close_browser"
    /\ IF browser = "none"
       THEN /\ pc' = "close_playwright"
            /\ UNCHANGED <<browser, closeCalls, pending>>
       ELSE /\ closeCalls' = Append(closeCalls, "browser")
            /\ \/ /\ browser' = "closed" /\ pc' = "close_playwright"
                  /\ UNCHANGED pending
               \/ /\ pending' = "raise" /\ pc' = "return"
                  /\ UNCHANGED browser
    /\ UNCHANGED <<ctlVars, ret, fileVars, playwright, context, restored,
                   launches, startCount, startFailed, closeInvoked, flowVars>>

\* close(): `if self.playwright: await self.playwright.stop()` 117-118
close_playwright ==
    /\ pc = "close_playwright"
    /\ IF playwright = "none"
       THEN /\ pc' = "return"
            /\ UNCHANGED <<playwright, closeCalls, pending>>
       ELSE /\ closeCalls' = Append(closeCalls, "playwright")
            /\ \/ /\ playwright' = "closed" /\ UNCHANGED pending
               \/ /\ pending' = "raise" /\ UNCHANGED playwright
            /\ pc' = "return"
    /\ UNCHANGED <<ctlVars, ret, fileVars, browser, context, restored,
                   launches, startCount, startFailed, closeInvoked, flowVars>>

\* the entry point hands its outcome to the caller
Return ==
    /\ pc = "return"
    /\ ret' = pending
    /\ pc' = "idle"
    /\ UNCHANGED <<ctlVars, pending, fileVars, sessVars, flowVars>>

\* ------------------------------------------------------------ login probes
BoolStr(b) == IF b THEN "True" ELSE "False"

\* is_logged_in 132-176: the landing URL classified by IsLoggedInURL, or
\* False when page creation or the navigation raised
is_logged_in_returns(r) ==
    \/ \E u \in LandingURLs : r = IsLoggedInURL(u)
    \/ r = FALSE

\* check_login 663-674 -> check_google_login_status 603-611
check_google_login_status ==
    /\ pc = "check_google_login_status"
    /\ \E r \in BOOLEAN :
        /\ is_logged_in_returns(r)
        /\ logged_in' = BoolStr(r)
        /\ pending' = BoolStr(r)
    /\ pc' = AfterTry(op, pending')
    /\ UNCHANGED <<outer, page, owner_probe, add_probe, owner_branch, upVars,
                   upload_success, diag, trace>>

\* what main() of a login entry point does with login_success (686-688,
\* 718-721): save the state on success, otherwise return False
LoginDone(success) ==
    IF ShouldSave(op, success)
    THEN pc' = "save" /\ UNCHANGED pending
    ELSE pending' = BoolStr(success) /\ pc' = AfterTry(op, pending')

\* perform_google_login 614-635: the probe; already logged in counts as success
perform_google_login ==
    /\ pc = "perform_google_login"
    /\ \E r \in BOOLEAN :
        /\ is_logged_in_returns(r)
        /\ logged_in' = BoolStr(r)
        /\ IF r THEN LoginDone(TRUE)
                ELSE pc' = "login" /\ UNCHANGED pending
    /\ UNCHANGED <<outer, page, owner_probe, add_probe, owner_branch, upVars,
                   upload_success, diag, trace>>

\* GoogleAuthManager.login 178-299: the interactive login ends in a boolean
\* (every exception inside it is turned into False at 295-299)
GoogleAuthManager_login ==
    /\ pc = "login"
    /\ \E r \in BOOLEAN : LoginDone(r)
    /\ UNCHANGED <<outer, flowVars>>

\* perform_manual_login 638-649 -> GoogleAuthManager.manual_login 305-461
perform_manual_login ==
    /\ pc = "perform_manual_login"
    /\ \E r \in BOOLEAN : LoginDone(r)
    /\ UNCHANGED <<outer, flowVars>>

\* ------------------------------------------------- _async_upload_logic
\* context.new_page() at 746
new_page ==
    /\ pc = "new_page"
    /\ \/ page' = "open" /\ pc' = "is_logged_in"
       \/ pc' = "except" /\ UNCHANGED page
    /\ UNCHANGED <<outer, pending, probeVars, upVars, upload_success, diag, trace>>

\* is_logged_in(page=page) at 752 and the branch at 753
is_logged_in ==
    /\ pc = "is_logged_in"
    /\ \E r \in BOOLEAN :
        /\ is_logged_in_returns(r)
        /\ logged_in' = BoolStr(r)
        /\ pc' = IF r THEN "goto" ELSE "not_logged_in"
    /\ trace' = Append(trace, "is_logged_in")
    /\ UNCHANGED <<outer, pending, page, owner_probe, add_probe, owner_branch,
                   upVars, upload_success, diag>>

\* 754-756: not logged in, close the page and return False
not_logged_in ==
    /\ pc = "not_logged_in"
    /\ \/ page' = "closed" /\ pending' = "False" /\ pc' = "finally_page"
       \/ pc' = "except" /\ UNCHANGED <<page, pending>>
    /\ UNCHANGED <<outer, probeVars, upVars, upload_success, diag, trace>>

\* page.goto(gbp_url) at 760
goto ==
    /\ pc = "goto"
    /\ \/ trace' = Append(trace, "goto") /\ pc' = "owner_probe"
       \/ pc' = "except" /\ UNCHANGED trace
    /\ UNCHANGED <<outer, pending, page, probeVars, upVars, upload_success, diag>>

\* 791-833: the ownership branch runs iff the owner-check control was seen;
\* in every other case the flow goes on to upload_images
AfterProbes_abort(owner_check_visible, add_photo_visible) ==
    IF owner_check_visible THEN "owner_check"
    ELSE IF add_photo_visible THEN "u_wait_add" ELSE "except"
AfterProbes(owner_check_visible, add_photo_visible) ==
    IF owner_check_visible THEN "owner_check" ELSE "u_wait_add"

ProbeOutcomes == {"visible", "timeout", "error"}

\* 768-776: 1 s probe for the owner-check control
probe_owner_check ==
    /\ pc = "owner_probe"
    /\ \E o \in ProbeOutcomes :
        /\ owner_probe' = o
        /\ pc' = IF o = "visible" THEN AfterProbes(TRUE, FALSE) ELSE "add_probe"
    /\ trace' = Append(trace, "owner_probe")
    /\ UNCHANGED <<outer, pending, page, logged_in, add_probe, owner_branch,
                   upVars, upload_success, diag>>

\* 779-788: 1 s probe for the add-photo control, only without owner check
probe_add_photo ==
    /\ pc = "add_probe"
    /\ \E o \in ProbeOutcomes :
        /\ add_probe' = o
        /\ pc' = AfterProbes(FALSE, o = "visible")
    /\ trace' = Append(trace, "add_probe")
    /\ UNCHANGED <<outer, pending, page, logged_in, owner_probe, owner_branch,
                   upVars, upload_success, diag>>

\* 791-821: click, iframe visible (15 s), continue visible (30 s), click,
\* iframe hidden (30 s); every timeout or raise in there is only logged
OwnerBranchOutcomes ==
    {"click_error", "iframe_timeout", "continue_timeout", "continue_click_error",
     "hidden_timeout", "hidden_error", "done"}

\* 815-821: TimeoutError and Exception are both caught and logged, so no
\* outcome of the branch leaves the try block of _async_upload_logic
OwnerBranchIsFatal_raise(outcome) == outcome # "done"
OwnerBranchIsFatal(outcome) == FALSE

owner_check ==
    /\ pc = "owner_check"
    /\ \E o \in OwnerBranchOutcomes :
        /\ owner_branch' = o
        /\ pc' = IF OwnerBranchIsFatal(o) THEN "except" ELSE "u_wait_add"
    /\ trace' = Append(trace, "owner_check")
    /\ UNCHANGED <<outer, pending, page, logged_in, owner_probe, add_probe,
                   upVars, upload_success, diag>>

\* ------------------------------------------------ GBPUploader.upload_images
\* `return False` at 527 and 543: a timed-out 60 s wait ends upload_images
WaitTimeoutIsFatal_lenient(step) == FALSE
WaitTimeoutIsFatal(step) == TRUE

\* 572-581 against 587-590: the iframe hiding or the wait timing out both
\* reach `return True`; any other raise is caught as fc_error
HiddenWaitResult_strict(outcome) == outcome = "hidden"
HiddenWaitResult(outcome) == outcome \in {"hidden", "timeout"}

WaitOutcomes == {"ok", "timeout", "error"}

\* upload_images returns to _async_upload_logic at 833; 836-840 save the
\* state on success and return upload_success
UploadReturns(result) ==
    /\ upload_success' = BoolStr(result)
    /\ IF ShouldSave(op, result)
       THEN pc' = "save" /\ UNCHANGED pending
       ELSE pending' = BoolStr(result) /\ pc' = "finally_page"

\* _save_error_page 474-487 never raises; it records the failure context
SaveErrorPage(filename_base) == diag' = diag \cup {filename_base}

\* 520-527: wait for the add-photo control (60 s)
wait_add_photo ==
    /\ pc = "u_wait_add"
    /\ trace' = Append(trace, "wait_add_photo")
    /\ \E o \in WaitOutcomes :
        /\ u_add' = o
        /\ IF o = "timeout" /\ WaitTimeoutIsFatal("add_button")
           THEN SaveErrorPage("error_add_button") /\ UploadReturns(FALSE)
           ELSE /\ pc' = IF o = "error" THEN "u_except" ELSE "u_click_add"
                /\ UNCHANGED <<pending, upload_success, diag>>
    /\ UNCHANGED <<outer, page, probeVars, u_iframe, u_chooser, u_set, u_hidden>>

\* 530: click the add-photo control
click_add_photo ==
    /\ pc = "u_click_add"
    /\ \/ trace' = Append(trace, "click_add_photo") /\ pc' = "u_wait_iframe"
       \/ pc' = "u_except" /\ UNCHANGED trace
    /\ UNCHANGED <<outer, pending, page, probeVars, upVars, upload_success, diag>>

\* 534-543: wait for the file-upload iframe (60 s)
wait_upload_iframe ==
    /\ pc = "u_wait_iframe"
    /\ trace' = Append(trace, "wait_upload_iframe")
    /\ \E o \in WaitOutcomes :
        /\ u_iframe' = o
        /\ IF o = "timeout" /\ WaitTimeoutIsFatal("file_upload_iframe")
           THEN SaveErrorPage("error_file_upload_iframe") /\ UploadReturns(FALSE)
           ELSE /\ pc' = IF o = "error" THEN "u_except" ELSE "u_chooser"
                /\ UNCHANGED <<pending, upload_success, diag>>
    /\ UNCHANGED <<outer, page, probeVars, u_add, u_chooser, u_set, u_hidden>>

\* 552: arm expect_file_chooser on the page; a raise is caught at 587
expect_file_chooser ==
    /\ pc = "u_chooser"
    /\ trace' = Append(trace, "expect_file_chooser")
    /\ \/ /\ pc' = "u_click_select"
          /\ UNCHANGED <<u_chooser, pending, upload_success, diag>>
       \/ /\ u_chooser' = "error"
          /\ SaveErrorPage("error_file_chooser") /\ UploadReturns(FALSE)
    /\ UNCHANGED <<outer, page, probeVars, u_add, u_iframe, u_set, u_hidden>>

\* 554-557: click the select-files control inside the iframe and take the
\* chooser; TimeoutError is caught at 583, anything else at 587
click_select_files ==
    /\ pc = "u_click_select"
    /\ trace' = Append(trace, "click_select_files")
    /\ \E o \in {"fired", "timeout", "error"} :
        /\ u_chooser' = o
        /\ CASE o = "fired" ->
                  /\ pc' = "u_set_files"
                  /\ UNCHANGED <<pending, upload_success, diag>>
             [] o = "timeout" ->
                  SaveErrorPage("error_file_chooser_timeout") /\ UploadReturns(FALSE)
             [] o = "error" ->
                  SaveErrorPage("error_file_chooser") /\ UploadReturns(FALSE)
    /\ UNCHANGED <<outer, page, probeVars, u_add, u_iframe, u_set, u_hidden>>

\* 562: file_chooser.set_files(image_paths)
set_files ==
    /\ pc = "u_set_files"
    /\ trace' = Append(trace, "set_files")
    /\ \E o \in WaitOutcomes :
        /\ u_set' = o
        /\ CASE o = "ok" ->
                  /\ pc' = "u_wait_hidden"
                  /\ UNCHANGED <<pending, upload_success, diag>>
             [] o = "timeout" ->
                  SaveErrorPage("error_file_chooser_timeout") /\ UploadReturns(FALSE)
             [] o = "error" ->
                  SaveErrorPage("error_file_chooser") /\ UploadReturns(FALSE)
    /\ UNCHANGED <<outer, page, probeVars, u_add, u_iframe, u_chooser, u_hidden>>

\* 570-581: wait for the upload iframe to hide (120 s), then return True
wait_iframe_hidden ==
    /\ pc = "u_wait_hidden"
    /\ trace' = Append(trace, "wait_iframe_hidden")
    /\ \E o \in {"hidden", "timeout", "error"} :
        /\ u_hidden' = o
        /\ IF HiddenWaitResult(o)
           THEN UploadReturns(TRUE) /\ UNCHANGED diag
           ELSE IF o = "timeout"
                THEN SaveErrorPage("error_file_chooser_timeout") /\ UploadReturns(FALSE)
                ELSE SaveErrorPage("error_file_chooser") /\ UploadReturns(FALSE)
    /\ UNCHANGED <<outer, page, probeVars, u_add, u_iframe, u_chooser, u_set>>

\* 592-596: the outer handler of upload_images
upload_images_except ==
    /\ pc = "u_except"
    /\ IF page = "open" THEN SaveErrorPage("error_unexpected_upload")
                        ELSE UNCHANGED diag
    /\ UploadReturns(FALSE)
    /\ UNCHANGED <<outer, page, probeVars, upVars, trace>>

\* ------------------------------------- _async_upload_logic, handler and exit
\* 842-852: screenshot if the page is open, return False
async_upload_except ==
    /\ pc = "except"
    /\ IF page = "open" THEN diag' = diag \cup {"error_async_logic"}
                        ELSE UNCHANGED diag
    /\ pending' = "False"
    /\ pc' = "finally_page"
    /\ UNCHANGED <<outer, page, probeVars, upVars, upload_success, trace>>

\* 853-857: close the page if it is still open; a raise here replaces the
\* value being returned.  upload_to_gbp's own finally (702-705) follows.
async_upload_finally ==
    /\ pc = "finally_page"
    /\ IF page = "open"
       THEN \/ page' = "closed" /\ UNCHANGED pending
            \/ pending' = "raise" /\ UNCHANGED page
       ELSE UNCHANGED <<page, pending>>
    /\ pc' = AfterTry(op, pending')
    /\ UNCHANGED <<outer, probeVars, upVars, upload_success, diag, trace>>

\* ------------------------------------------------------------------- Next
Next ==
    \/ check_login \/ login_to_google \/ manual_login \/ upload_to_gbp
    \/ start \/ start_launch_fails \/ start_context_fails
    \/ save_storage_state
    \/ close_context \/ close_browser \/ close_playwright \/ Return
    \/ check_google_login_status \/ perform_google_login
    \/ GoogleAuthManager_login \/ perform_manual_login
    \/ new_page \/ is_logged_in \/ not_logged_in \/ goto
    \/ probe_owner_check \/ probe_add_photo \/ owner_check
    \/ wait_add_photo \/ click_add_photo \/ wait_upload_iframe
    \/ expect_file_chooser \/ click_select_files \/ set_files
    \/ wait_iframe_hidden
    \/ upload_images_except \/ async_upload_except \/ async_upload_finally

Spec == Init /\ [][Next]_vars

\* ======================================================== hpb_scraper.py
\* ------------------------------------------------------ _make_request 21-36
\* what requests.get / raise_for_status raise: all RequestException (31)
RequestFailures == {"Timeout", "ConnectionError", "HTTPError"}

\* `for i in range(retries)` at 26
RangeContinues_oneMore(i, retries) == i <= retries
RangeContinues(i, retries) == i < retries

\* `if i < retries - 1: time.sleep(delay)` at 33-34
SleepsAfterFailure_always(i, retries) == TRUE
SleepsAfterFailure(i, retries) == i < retries - 1

\* GET attempts recorded in a log
Attempts(log) == Cardinality({k \in DOMAIN log : log[k] # "sleep"})
Sleeps(log) == Cardinality({k \in DOMAIN log : log[k] = "sleep"})

\* _make_request(url, retries) is called
InitRequest ==
    /\ FacadeInit
    /\ rq_pc = "loop" /\ rq_retries \in 0..MaxRetries /\ rq_i = 0
    /\ rq_log = <<>> /\ rq_result = "none"
    /\ ClIdle /\ FtIdle /\ PiIdle /\ DlIdle /\ PrIdle /\ LgIdle /\ UiIdle /\ MlIdle
    /\ MwIdle
    /\ WkIdle

\* 28-30: the GET succeeds and raise_for_status passes: return response
request_succeeds ==
    /\ rq_pc = "loop" /\ RangeContinues(rq_i, rq_retries)
    /\ rq_log' = Append(rq_log, "ok")
    /\ rq_result' = "response"
    /\ rq_pc' = "done"
    /\ UNCHANGED <<rq_retries, rq_i, notRq>>

\* 31-34: a RequestException is logged; sleep unless this was the last attempt
request_fails ==
    /\ rq_pc = "loop" /\ RangeContinues(rq_i, rq_retries)
    /\ \E e \in RequestFailures :
        rq_log' = IF SleepsAfterFailure(rq_i, rq_retries)
                  THEN rq_log \o <<e, "sleep">>
                  ELSE Append(rq_log, e)
    /\ rq_i' = rq_i + 1
    /\ UNCHANGED <<rq_pc, rq_retries, rq_result, notRq>>

\* 35-36: the loop is over without a response: log the error, return None
request_exhausted ==
    /\ rq_pc = "loop" /\ ~ RangeContinues(rq_i, rq_retries)
    /\ rq_result' = "None"
    /\ rq_pc' = "done"
    /\ UNCHANGED <<rq_retries, rq_i, rq_log, notRq>>

NextRequest == request_succeeds \/ request_fails \/ request_exhausted

SpecRequest == InitRequest /\ [][NextRequest]_vars

\* -------------------------------------------- _get_cleaned_image_url 38-53
\* A string is a sequence of fragments.  The fragments are chosen so that
\* substring tests on the characters agree with contiguous matches on the
\* fragments.
SrcTokens ==
    {"http:", "https:", "HTTP:", "data:", "//", "x", "/p", "?", "#", ";base64,", "_t"}

\* Optional[str]: None
NoneURL == <<"None">>

\* fragments that spell a scheme, and their lower case (urlsplit lowers it)
SchemeTokens == {"http:", "https:", "HTTP:", "data:"}
Lower(tok) == IF tok = "HTTP:" THEN "http:" ELSE tok
\* the schemes among them that urllib.parse lists in uses_netloc
UsesNetloc == {"http:", "https:"}
\* fragments that begin with "/"
SlashTokens == {"/", "//", "/p"}

\* index of the first element of s in toks, Len(s) + 1 if there is none
FirstIn(s, toks) ==
    CHOOSE i \in 1..(Len(s) + 1) :
        /\ i = Len(s) + 1 \/ s[i] \in toks
        /\ \A j \in 1..(i - 1) : s[j] \notin toks
Before(s, toks) == SubSeq(s, 1, FirstIn(s, toks) - 1)

\* urllib.parse.urlsplit(src) at 43: scheme, netloc, path (query, fragment cut)
UrlSplit(src) ==
    LET body == Before(src, {"?", "#"})
        hasScheme == Len(body) > 0 /\ body[1] \in SchemeTokens
        rest == IF hasScheme THEN Tail(body) ELSE body
        hasNetloc == Len(rest) > 0 /\ rest[1] = "//"
        after == IF hasNetloc THEN Tail(rest) ELSE rest
        netloc == IF hasNetloc THEN Before(after, SlashTokens) ELSE <<>>
    IN [scheme |-> IF hasScheme THEN Lower(body[1]) ELSE "",
        netloc |-> netloc,
        path |-> IF hasNetloc THEN SubSeq(after, Len(netloc) + 1, Len(after))
                              ELSE rest]

\* path[:2] == '//'
StartsWithTwoSlashes(path) ==
    \/ Len(path) > 0 /\ path[1] = "//"
    \/ Len(path) > 1 /\ path[1] = "/" /\ path[2] \in SlashTokens

\* urllib.parse.urlunsplit((scheme, netloc, path, '', '')) at 44
UrlUnsplit(scheme, netloc, path) ==
    LET addNetloc == \/ netloc # <<>>
                     \/ scheme \in UsesNetloc /\ ~ StartsWithTwoSlashes(path)
        rooted == IF Len(path) > 0 /\ path[1] \notin SlashTokens
                  THEN <<"/">> \o path ELSE path
        url == IF addNetloc THEN <<"//">> \o netloc \o rooted ELSE path
    IN IF scheme # "" THEN <<scheme>> \o url ELSE url

\* cleaned_url.split(cleanup_pattern)[0] at 47
BeforePattern(url, pattern) ==
    LET i == CHOOSE k \in 1..Len(url) :
                 /\ k + Len(pattern) - 1 <= Len(url)
                 /\ SubSeq(url, k, k + Len(pattern) - 1) = pattern
                 /\ \A j \in 1..(k - 1) :
                        SubSeq(url, j, j + Len(pattern) - 1) # pattern
    IN SubSeq(url, 1, i - 1)

\* cleaned_url.startswith(('http://', 'https://')) at 50
StartsWithHttp(url) ==
    Len(url) >= 2 /\ url[1] \in {"http:", "https:"} /\ StartsWithTwoSlashes(Tail(url))

\* 46-47: the cleanup pattern is cut only when it is non-empty and present
CutsPattern_never(cleaned_url, cleanup_pattern) == FALSE
CutsPattern(cleaned_url, cleanup_pattern) ==
    cleanup_pattern # <<>> /\ InURL(cleanup_pattern, cleaned_url)

\* 50: what is filtered out
IsFiltered_noBase64(cleaned_url) == ~ StartsWithHttp(cleaned_url)
IsFiltered(cleaned_url) ==
    ~ StartsWithHttp(cleaned_url) \/ InURL(<<";base64,">>, cleaned_url)

\* _get_cleaned_image_url(src, cleanup_pattern) 38-53
CleanedImageUrl(src, cleanup_pattern) ==
    IF src = <<>> THEN NoneURL
    ELSE LET parts == UrlSplit(src)
             unsplit == UrlUnsplit(parts.scheme, parts.netloc, parts.path)
             cleaned_url == IF CutsPattern(unsplit, cleanup_pattern)
                            THEN BeforePattern(unsplit, cleanup_pattern)
                            ELSE unsplit
         IN IF IsFiltered(cleaned_url) THEN NoneURL ELSE cleaned_url

\* src strings and cleanup patterns the calls are made with
SrcStrings == UNION {[1..n -> SrcTokens] : n \in 0..MaxSrcLen}
CleanupPatterns == {<<>>, <<"_t">>, <<"/p">>, <<"?">>}

InitClean ==
    /\ FacadeInit /\ RqIdle /\ FtIdle /\ PiIdle /\ DlIdle /\ PrIdle /\ LgIdle
    /\ UiIdle /\ MlIdle
    /\ MwIdle
    /\ WkIdle
    /\ cl_pc = "first"
    /\ cl_src \in SrcStrings
    /\ cl_pattern \in CleanupPatterns
    /\ cl_result = <<>> /\ cl_again = <<>>

\* _get_cleaned_image_url(src, cleanup_pattern)
clean_url ==
    /\ cl_pc = "first"
    /\ cl_result' = CleanedImageUrl(cl_src, cl_pattern)
    /\ cl_pc' = IF cl_result' = NoneURL THEN "done" ELSE "again"
    /\ UNCHANGED <<cl_src, cl_pattern, cl_again, notCl>>

\* _get_cleaned_image_url(result, cleanup_pattern) on a non-null result
clean_again ==
    /\ cl_pc = "again"
    /\ cl_again' = CleanedImageUrl(cl_result, cl_pattern)
    /\ cl_pc' = "done"
    /\ UNCHANGED <<cl_src, cl_pattern, cl_result, notCl>>

NextClean == clean_url \/ clean_again

SpecClean == InitClean /\ [][NextClean]_vars

\* ------------------------------------------ fetch_latest_style_images 135-215
\* src attributes found on the gallery pages (<<>>: no src attribute)
FetchSrcs ==
    { <<>>,
      <<"http:", "//", "x", "/p">>,
      <<"http:", "//", "x", "/p", "?">>,
      <<"https:", "//", "x", "/p", "_t">>,
      <<"http:", "//", "x", ";base64,">>,
      <<"data:", "x", ";base64,">>,
      <<"HTTP:", "//", "x">>,
      <<"http:", "x">>,
      <<"/p">> }

\* 199: cleaned_url and cleaned_url not in unique_image_urls
IsNewURL_always(cleaned_url, unique_image_urls) == cleaned_url # NoneURL
IsNewURL(cleaned_url, unique_image_urls) ==
    cleaned_url # NoneURL /\ cleaned_url \notin unique_image_urls

\* 161, 203: len(unique_image_urls) >= max_images
ReachedMax_late(unique_image_urls, max_images) ==
    Cardinality(unique_image_urls) > max_images
ReachedMax(unique_image_urls, max_images) ==
    Cardinality(unique_image_urls) >= max_images

InitFetch ==
    /\ FacadeInit /\ RqIdle /\ ClIdle /\ PiIdle /\ DlIdle /\ PrIdle /\ LgIdle
    /\ UiIdle /\ MlIdle
    /\ MwIdle
    /\ WkIdle
    /\ ft_pc = "call"
    /\ ft_caller \in {"direct", "forward", "backward"}
    /\ ft_selector \in BOOLEAN
    /\ ft_pattern \in {<<>>, <<"_t">>}
    /\ ft_max_page \in 0..MaxPage
    /\ ft_max_images \in 0..MaxImages
    /\ ft_page_num = 0 /\ ft_left = 0 /\ ft_src = <<>> /\ ft_cleaned = <<>>
    /\ ft_dup = FALSE /\ ft_unique = {} /\ ft_list = <<>> /\ ft_visited = <<>>
    /\ ft_logged = "none" /\ ft_first_empty = FALSE /\ ft_sleeps = 0
    /\ ft_status = "none" /\ ft_result = <<>>

ftConfig == <<ft_caller, ft_selector, ft_pattern, ft_max_page, ft_max_images>>
ftElem == <<ft_left, ft_src, ft_cleaned, ft_dup, ft_unique, ft_list, ft_first_empty,
           ft_sleeps>>
ftSeen == <<ft_left, ft_src, ft_cleaned, ft_dup, ft_unique, ft_list, ft_first_empty>>

\* main_window.py 770: Worker(fetch_latest_style_images, hpb_url, order=fetch_order);
\* the signature at 135 has no order parameter, so the call raises TypeError
fetch_rejected ==
    /\ ft_pc = "call" /\ ft_caller # "direct"
    /\ ft_status' = "TypeError"
    /\ ft_pc' = "done"
    /\ UNCHANGED <<ftConfig, ftElem, ft_page_num, ft_visited, ft_logged, ft_result,
                   notFt>>

\* 148-150
fetch_no_selector ==
    /\ ft_pc = "call" /\ ft_caller = "direct" /\ ~ ft_selector
    /\ ft_status' = "returned" /\ ft_result' = <<>>
    /\ ft_pc' = "done"
    /\ UNCHANGED <<ftConfig, ftElem, ft_page_num, ft_visited, ft_logged, notFt>>

\* 152-160: range(max_page, 0, -1) starts at max_page
fetch_begin ==
    /\ ft_pc = "call" /\ ft_caller = "direct" /\ ft_selector
    /\ ft_page_num' = ft_max_page
    /\ ft_pc' = "page"
    /\ UNCHANGED <<ftConfig, ftElem, ft_visited, ft_logged, ft_status, ft_result,
                   notFt>>

\* 160-162, 214-215: the range is exhausted or the cap is reached
fetch_return ==
    /\ ft_pc = "page"
    /\ ft_page_num < 1 \/ ReachedMax(ft_unique, ft_max_images)
    /\ ft_status' = "returned" /\ ft_result' = ft_list
    /\ ft_pc' = "done"
    /\ UNCHANGED <<ftConfig, ftElem, ft_page_num, ft_visited, ft_logged, notFt>>

PageRequested ==
    /\ ft_pc = "page"
    /\ ft_page_num >= 1 /\ ~ ReachedMax(ft_unique, ft_max_images)
    /\ ft_visited' = Append(ft_visited, ft_page_num)

\* 174-176: _make_request returned None
page_request_fails ==
    /\ PageRequested
    /\ ft_logged' = "request failed"
    /\ ft_page_num' = ft_page_num - 1
    /\ UNCHANGED <<ft_pc, ftConfig, ftElem, ft_status, ft_result, notFt>>

\* 211-212: the delay before the next page, skipped once the cap is reached
\* and after page 1
SleepsBeforeNextPage_always(unique_image_urls, max_images, page_num) ==
    IF page_num > 1 THEN 1 ELSE 0
SleepsBeforeNextPage(unique_image_urls, max_images, page_num) ==
    IF ~ ReachedMax(unique_image_urls, max_images) /\ page_num > 1 THEN 1 ELSE 0

\* 178-180, 206-212: parsing raises; the handler falls through to the delay
page_parse_error ==
    /\ PageRequested
    /\ ft_logged' = "parse error"
    /\ ft_sleeps' = ft_sleeps
                   + SleepsBeforeNextPage(ft_unique, ft_max_images, ft_page_num)
    /\ ft_page_num' = ft_page_num - 1
    /\ UNCHANGED <<ft_pc, ftConfig, ftSeen, ft_status, ft_result, notFt>>

\* 187-192: a page without image element ends the walk only if it is page 1
EmptyPageIsFatal_never(page_num) == FALSE
EmptyPageIsFatal(page_num) == page_num = 1

\* 183-192: no image element on the page
page_no_images ==
    /\ PageRequested
    /\ ft_logged' = "no image element"
    /\ ft_first_empty' = (ft_first_empty \/ ft_visited = <<>>)
    /\ IF EmptyPageIsFatal(ft_page_num)
       THEN /\ ft_status' = "returned" /\ ft_result' = <<>>
            /\ ft_pc' = "done"
            /\ UNCHANGED ft_page_num
       ELSE /\ ft_page_num' = ft_page_num - 1
            /\ UNCHANGED <<ft_pc, ft_status, ft_result>>
    /\ UNCHANGED <<ftConfig, ft_left, ft_src, ft_cleaned, ft_dup, ft_unique, ft_list,
                   ft_sleeps, notFt>>

\* 180, 195: the page has image elements
page_has_images ==
    /\ PageRequested
    /\ ft_logged' = "image elements"
    /\ ft_left' \in 1..MaxImgs
    /\ ft_pc' = "img"
    /\ UNCHANGED <<ftConfig, ft_page_num, ft_src, ft_cleaned, ft_dup, ft_unique,
                   ft_list, ft_first_empty, ft_sleeps, ft_status, ft_result, notFt>>

\* 195-204: one element of reversed(img_elements)
img_next ==
    /\ ft_pc = "img" /\ ft_left > 0
    /\ \E src \in FetchSrcs :
        LET cleaned_url == CleanedImageUrl(src, ft_pattern) IN
        /\ ft_src' = src
        /\ ft_cleaned' = cleaned_url
        /\ IF IsNewURL(cleaned_url, ft_unique)
           THEN /\ ft_unique' = ft_unique \cup {cleaned_url}
                /\ ft_list' = Append(ft_list, cleaned_url)
                /\ ft_left' = IF ReachedMax(ft_unique', ft_max_images)
                              THEN 0 ELSE ft_left - 1
                /\ UNCHANGED ft_dup
           ELSE /\ ft_dup' = (ft_dup \/ cleaned_url # NoneURL)
                /\ ft_left' = ft_left - 1
                /\ UNCHANGED <<ft_unique, ft_list>>
    /\ UNCHANGED <<ft_pc, ftConfig, ft_page_num, ft_visited, ft_logged,
                   ft_first_empty, ft_sleeps, ft_status, ft_result, notFt>>

\* 195, 204, 211-212: the element loop ends, on to the next page
img_end ==
    /\ ft_pc = "img" /\ ft_left = 0
    /\ ft_sleeps' = ft_sleeps
                   + SleepsBeforeNextPage(ft_unique, ft_max_images, ft_page_num)
    /\ ft_page_num' = ft_page_num - 1
    /\ ft_pc' = "page"
    /\ UNCHANGED <<ftConfig, ftSeen, ft_visited, ft_logged, ft_status, ft_result,
                   notFt>>

NextFetch ==
    \/ fetch_rejected \/ fetch_no_selector \/ fetch_begin \/ fetch_return
    \/ page_request_fails \/ page_parse_error \/ page_no_images
    \/ page_has_images \/ img_next \/ img_end

SpecFetch == InitFetch /\ [][NextFetch]_vars

\* ----------------------------------------------- _get_style_page_info 84-133
\* The text of the pagination element is a sequence of characters; "P" stands
\* for the three characters of the word for "page" that end both patterns,
\* "Z" for the character for "all" that starts the second, "x" for any other.
TextChars == {"0", "1", "2", "/", "P", "Z", "x"}
Digits == {"0", "1", "2"}
Texts == UNION {[1..n -> TextChars] : n \in 0..MaxTextLen}

DigitValue(d) == IF d = "0" THEN 0 ELSE IF d = "1" THEN 1 ELSE 2

\* int() of a run of digits
RECURSIVE ToInt(_)
ToInt(ds) ==
    IF ds = <<>> THEN 0
    ELSE 10 * ToInt(SubSeq(ds, 1, Len(ds) - 1)) + DigitValue(ds[Len(ds)])

\* \d+ is greedy: the run of digits that starts at i ends here (i - 1: no digit)
RunEnd(text, i) ==
    CHOOSE e \in (i - 1)..Len(text) :
        /\ \A j \in i..e : text[j] \in Digits
        /\ e = Len(text) \/ text[e + 1] \notin Digits
\* and the run of digits that ends at i starts here
RunStart(text, i) ==
    CHOOSE b \in 1..(i + 1) :
        /\ \A j \in b..i : text[j] \in Digits
        /\ b = 1 \/ text[b - 1] \notin Digits

\* 114: positions of the "/" of a match of (\d+)/(\d+)P
SlashMatches(text) ==
    {k \in 2..Len(text) :
        /\ text[k] = "/" /\ text[k - 1] \in Digits
        /\ RunEnd(text, k + 1) > k
        /\ RunEnd(text, k + 1) < Len(text)
        /\ text[RunEnd(text, k + 1) + 1] = "P"}
\* 120: positions of the "Z" of a match of Z(\d+)P
TotalMatches(text) ==
    {k \in 1..Len(text) :
        /\ text[k] = "Z"
        /\ RunEnd(text, k + 1) > k
        /\ RunEnd(text, k + 1) < Len(text)
        /\ text[RunEnd(text, k + 1) + 1] = "P"}

\* re.search returns the leftmost match
Leftmost(S) == CHOOSE k \in S : \A j \in S : k <= j

\* 116: int(match.group(2))
SlashGroup_first(text, k) == SubSeq(text, RunStart(text, k - 1), k - 1)
SlashGroup(text, k) == SubSeq(text, k + 1, RunEnd(text, k + 1))

\* 113-125: max_page from the text of the element
MaxPageOfText(text) ==
    IF SlashMatches(text) # {}
    THEN ToInt(SlashGroup(text, Leftmost(SlashMatches(text))))
    ELSE IF TotalMatches(text) # {}
         THEN LET k == Leftmost(TotalMatches(text))
              IN ToInt(SubSeq(text, k + 1, RunEnd(text, k + 1)))
         ELSE 1

\* 128-130: an exception while parsing leaves max_page at 1
OnParseException_raise == [status |-> "raised", max_page |-> 0]
OnParseException == [status |-> "returned", max_page |-> 1]

InitPageInfo ==
    /\ FacadeInit /\ RqIdle /\ ClIdle /\ FtIdle /\ DlIdle /\ PrIdle /\ LgIdle
    /\ UiIdle /\ MlIdle
    /\ MwIdle
    /\ WkIdle
    /\ pi_pc = "call"
    /\ pi_selector \in BOOLEAN
    /\ pi_case = "none" /\ pi_text = <<>>
    /\ pi_max_page = 1 /\ pi_status = "none"

\* 94-97
page_info_no_selector ==
    /\ pi_pc = "call" /\ ~ pi_selector
    /\ pi_case' = "no selector"
    /\ pi_max_page' = 1 /\ pi_status' = "returned"
    /\ pi_pc' = "done"
    /\ UNCHANGED <<pi_selector, pi_text, notPi>>

\* 100-102: _make_request returned None
page_info_request_fails ==
    /\ pi_pc = "call" /\ pi_selector
    /\ pi_case' = "fetch failed"
    /\ pi_max_page' = 1 /\ pi_status' = "returned"
    /\ pi_pc' = "done"
    /\ UNCHANGED <<pi_selector, pi_text, notPi>>

\* 105-107, 128-133: parsing the page raises
page_info_parse_error ==
    /\ pi_pc = "call" /\ pi_selector
    /\ pi_case' = "parse error"
    /\ pi_max_page' = OnParseException.max_page
    /\ pi_status' = OnParseException.status
    /\ pi_pc' = "done"
    /\ UNCHANGED <<pi_selector, pi_text, notPi>>

\* 107-108, 126-127: the element is not on the page
page_info_no_element ==
    /\ pi_pc = "call" /\ pi_selector
    /\ pi_case' = "no element"
    /\ pi_max_page' = 1 /\ pi_status' = "returned"
    /\ pi_pc' = "done"
    /\ UNCHANGED <<pi_selector, pi_text, notPi>>

\* 108-125: the element is there and its text is searched
page_info_text ==
    /\ pi_pc = "call" /\ pi_selector
    /\ \E text \in Texts :
        /\ pi_text' = text
        /\ pi_max_page' = MaxPageOfText(text)
    /\ pi_case' = "text"
    /\ pi_status' = "returned"
    /\ pi_pc' = "done"
    /\ UNCHANGED <<pi_selector, notPi>>

NextPageInfo ==
    \/ page_info_no_selector \/ page_info_request_fails \/ page_info_parse_error
    \/ page_info_no_element \/ page_info_text

SpecPageInfo == InitPageInfo /\ [][NextPageInfo]_vars

\* ---------------------------------------------------- download_images 217-259
\* extensions of the URL paths ("": none) and what a fetch of a URL yields
UrlExtensions == {"", ".png", ".PNG", ".bmp"}
FetchYields == {"content", "empty", "None"}
ImageUrls == [ext : UrlExtensions, yields : FetchYields]

ExtLower(ext) == IF ext = ".PNG" THEN ".png" ELSE ext
\* 235-238
FileExtension(ext) ==
    LET file_extension == IF ext = "" THEN ".jpg" ELSE ext
    IN IF ExtLower(file_extension) \notin {".jpg", ".jpeg", ".png", ".gif", ".webp"}
       THEN ".jpg" ELSE file_extension

\* 230, 247-256: after a URL that gave no file the loop goes on with the next
AfterFailure_abort(i, image_urls) == Len(image_urls) + 1
AfterFailure(i, image_urls) == i + 1

InitDownload ==
    /\ FacadeInit /\ RqIdle /\ ClIdle /\ FtIdle /\ PiIdle /\ PrIdle /\ LgIdle
    /\ UiIdle /\ MlIdle
    /\ MwIdle
    /\ WkIdle
    /\ dl_pc = "call"
    /\ dl_urls \in UNION {[1..n -> ImageUrls] : n \in 0..MaxUrls}
    /\ dl_dir \in {"exists", "absent", "failed"}
    /\ dl_i = 1 /\ dl_errors = {} /\ dl_paths = <<>>
    /\ dl_status = "none" /\ dl_result = <<>>

\* 222-225: temp_dir is there or is made
download_begin ==
    /\ dl_pc = "call" /\ dl_dir \in {"exists", "absent"}
    /\ dl_dir' = "exists"
    /\ dl_pc' = "loop"
    /\ UNCHANGED <<dl_urls, dl_i, dl_errors, dl_paths, dl_status, dl_result, notDl>>

\* 226-228: os.makedirs raises OSError
download_makedirs_fails ==
    /\ dl_pc = "call" /\ dl_dir = "failed"
    /\ dl_status' = "returned" /\ dl_result' = <<>>
    /\ dl_pc' = "done"
    /\ UNCHANGED <<dl_urls, dl_dir, dl_i, dl_errors, dl_paths, notDl>>

\* 232-246: content fetched and written
download_saved ==
    /\ dl_pc = "loop" /\ dl_i <= Len(dl_urls)
    /\ dl_urls[dl_i].yields = "content"
    /\ dl_paths' = Append(dl_paths, <<dl_i, FileExtension(dl_urls[dl_i].ext)>>)
    /\ dl_i' = dl_i + 1
    /\ UNCHANGED <<dl_pc, dl_urls, dl_dir, dl_errors, dl_status, dl_result, notDl>>

\* 243-244, 255-256: open or write raises
download_write_fails ==
    /\ dl_pc = "loop" /\ dl_i <= Len(dl_urls)
    /\ dl_urls[dl_i].yields = "content"
    /\ dl_errors' = dl_errors \cup {dl_i}
    /\ dl_i' = AfterFailure(dl_i, dl_urls)
    /\ UNCHANGED <<dl_pc, dl_urls, dl_dir, dl_paths, dl_status, dl_result, notDl>>

\* 233, 247-248: no response, or a response without content
download_skipped ==
    /\ dl_pc = "loop" /\ dl_i <= Len(dl_urls)
    /\ dl_urls[dl_i].yields # "content"
    /\ dl_i' = AfterFailure(dl_i, dl_urls)
    /\ UNCHANGED <<dl_pc, dl_urls, dl_dir, dl_errors, dl_paths, dl_status, dl_result,
                   notDl>>

\* 258-259
download_return ==
    /\ dl_pc = "loop" /\ dl_i > Len(dl_urls)
    /\ dl_status' = "returned" /\ dl_result' = dl_paths
    /\ dl_pc' = "done"
    /\ UNCHANGED <<dl_urls, dl_dir, dl_i, dl_errors, dl_paths, notDl>>

NextDownload ==
    \/ download_begin \/ download_makedirs_fails \/ download_saved
    \/ download_write_fails \/ download_skipped \/ download_return

SpecDownload == InitDownload /\ [][NextDownload]_vars

\* ------------------------------- GoogleAuthManager.is_logged_in 132-176
\* URLs a page handed in by the caller can be at
SuppliedURLs ==
    LandingURLs \cup
    { <<"about:blank">>,
      <<"https://", "business.google.com", "/">>,
      <<"https://", "accounts.google.com", "/ServiceLogin", "?continue=",
        "myaccount.google.com">> }

\* 150: the page is taken to the sign-in entry point unless it is on
\* accounts.google.com already
NeedsNavigation(current_url) == ~ InURL(<<"accounts.google.com">>, current_url)

\* 174: the finally closes the page only if this call made it and it is open
ClosesPage(should_close_page, check_page) == should_close_page /\ check_page = "open"

InitProbe ==
    /\ FacadeInit /\ RqIdle /\ ClIdle /\ FtIdle /\ PiIdle /\ DlIdle /\ LgIdle
    /\ UiIdle /\ MlIdle
    /\ MwIdle
    /\ WkIdle
    /\ pr_pc = "start"
    /\ pr_supplied \in BOOLEAN
    /\ IF pr_supplied
       THEN pr_page \in {"open", "closed"} /\ pr_url \in SuppliedURLs
       ELSE pr_page = "none" /\ pr_url = <<>>
    /\ pr_should_close = FALSE /\ pr_navigated = FALSE
    /\ pr_pending = "none" /\ pr_raised = "none" /\ pr_result = "none"

\* 139-143: no page given, context.new_page()
probe_new_page ==
    /\ pr_pc = "start" /\ ~ pr_supplied
    /\ \/ /\ pr_page' = "open" /\ pr_url' = <<"about:blank">>
          /\ pr_should_close' = TRUE
          /\ pr_pc' = "read_url"
          /\ UNCHANGED pr_raised
       \/ /\ pr_raised' = "new_page"
          /\ pr_pc' = "except"
          /\ UNCHANGED <<pr_page, pr_url, pr_should_close>>
    /\ UNCHANGED <<pr_supplied, pr_navigated, pr_pending, pr_result, notPr>>

\* 144-145: the caller's page is used
probe_use_page ==
    /\ pr_pc = "start" /\ pr_supplied
    /\ pr_pc' = "read_url"
    /\ UNCHANGED <<pr_supplied, pr_page, pr_should_close, pr_url, pr_navigated,
                   pr_pending, pr_raised, pr_result, notPr>>

\* 149-150
probe_read_url ==
    /\ pr_pc = "read_url"
    /\ pr_pc' = IF NeedsNavigation(pr_url) THEN "goto" ELSE "classify"
    /\ UNCHANGED <<pr_supplied, pr_page, pr_should_close, pr_url, pr_navigated,
                   pr_pending, pr_raised, pr_result, notPr>>

\* 152-153: goto lands somewhere, or raises (a closed page always raises; an
\* open one can be closed by the user while it loads)
probe_goto ==
    /\ pr_pc = "goto"
    /\ \/ /\ pr_page = "open"
          /\ pr_url' \in LandingURLs
          /\ pr_navigated' = TRUE
          /\ pr_pc' = "classify"
          /\ UNCHANGED <<pr_page, pr_raised>>
       \/ /\ pr_page' \in {pr_page, "closed"}
          /\ pr_raised' = "goto"
          /\ pr_pc' = "except"
          /\ UNCHANGED <<pr_url, pr_navigated>>
    /\ UNCHANGED <<pr_supplied, pr_should_close, pr_pending, pr_result, notPr>>

\* 158-167
probe_classify ==
    /\ pr_pc = "classify"
    /\ pr_pending' = BoolStr(IsLoggedInURL(pr_url))
    /\ pr_pc' = "finally"
    /\ UNCHANGED <<pr_supplied, pr_page, pr_should_close, pr_url, pr_navigated,
                   pr_raised, pr_result, notPr>>

\* 169-171
probe_except ==
    /\ pr_pc = "except"
    /\ pr_pending' = "False"
    /\ pr_pc' = "finally"
    /\ UNCHANGED <<pr_supplied, pr_page, pr_should_close, pr_url, pr_navigated,
                   pr_raised, pr_result, notPr>>

\* 172-176: check_page.close() has no guard; when it raises, the exception
\* replaces the value being returned
probe_finally ==
    /\ pr_pc = "finally"
    /\ IF ClosesPage(pr_should_close, pr_page)
       THEN \/ /\ pr_page' = "closed"
               /\ pr_result' = pr_pending
               /\ UNCHANGED pr_raised
            \/ /\ pr_raised' = "close"
               /\ pr_result' = "raise"
               /\ UNCHANGED pr_page
       ELSE /\ pr_result' = pr_pending
            /\ UNCHANGED <<pr_page, pr_raised>>
    /\ pr_pc' = "done"
    /\ UNCHANGED <<pr_supplied, pr_should_close, pr_url, pr_navigated, pr_pending,
                   notPr>>

NextProbe ==
    \/ probe_new_page \/ probe_use_page \/ probe_read_url \/ probe_goto
    \/ probe_classify \/ probe_except \/ probe_finally

SpecProbe == InitProbe /\ [][NextProbe]_vars

\* ------------------------------------ GoogleAuthManager.login 178-299
\* URLs the login page can be at when it is polled.  The second "/" of "//"
\* is written with the host and every "/" of the path is a fragment of its
\* own, so that the patterns below are contiguous runs of fragments.
LoginPageURLs ==
    { <<"https:/", "/accounts.google.com", "/", "signin", "/", "v2", "/", "identifier">>,
      <<"https:/", "/accounts.google.com", "/", "signin", "/", "signinchooser">>,
      <<"https:/", "/accounts.google.com", "/", "ManageAccount">>,
      <<"https:/", "/accounts.google.com", "/", "v3", "/", "signin", "/", "identifier">>,
      <<"https:/", "/myaccount.google.com", "/">>,
      <<"https:/", "/google.com", "/">>,
      <<"https:/", "/www.google.com", "/">>,
      <<"https:/", "/mail.google.com", "/", "mail">>,
      <<"https:/", "/support.google.com", "/", "accounts">> }

\* 203-210, with the "**" removed as at 231
LoginSuccessPatterns ==
    { <<"/myaccount.google.com", "/">>,
      <<"/accounts.google.com", "/", "signin", "/", "signinchooser">>,
      <<"/accounts.google.com", "/", "ManageAccount">>,
      <<"/google.com", "/">>,
      <<"/www.google.com", "/">>,
      <<"/mail.google.com", "/">> }

\* 230-234, 301-303
MatchesSuccessPattern(current_url) ==
    \E pattern \in LoginSuccessPatterns : InURL(pattern, current_url)

\* 240: "accounts.google.com/signin" in current_url
OnSignInPath(current_url) ==
    InURL(<<"/accounts.google.com", "/", "signin">>, current_url)

\* 219, 408: time.time() - start_time < timeout_seconds fails; one poll is
\* one second of the 300 (login) or 600 (manual_login)
TimedOut_never(polls) == FALSE
TimedOut(polls) == polls >= MaxPolls

\* what a call of is_logged_in() without a page gives its caller
IsLoggedInOutcomes == {"True", "False", "raise"}

\* 272, 277: the final check is made when success is false
NeedsFinalCheck_never(success) == FALSE
NeedsFinalCheck(success) == ~ success

\* 283-293: what login returns after the final check
FinalResult_failure(final_check) == FALSE
FinalResult(final_check) == final_check = "True"

InitLogin ==
    /\ FacadeInit /\ RqIdle /\ ClIdle /\ FtIdle /\ PiIdle /\ DlIdle /\ PrIdle
    /\ UiIdle /\ MlIdle
    /\ MwIdle
    /\ WkIdle
    /\ lg_pc = "new_page"
    /\ lg_page = "none" /\ lg_url = <<>> /\ lg_polls = 0
    /\ lg_success = FALSE /\ lg_exit = "none" /\ lg_probes = <<>>
    /\ lg_raised = "none" /\ lg_result = "none"

\* 186
login_new_page ==
    /\ lg_pc = "new_page"
    /\ \/ lg_page' = "open" /\ lg_pc' = "goto" /\ UNCHANGED lg_raised
       \/ lg_raised' = "new_page" /\ lg_pc' = "outer_except" /\ UNCHANGED lg_page
    /\ UNCHANGED <<lg_url, lg_polls, lg_success, lg_exit, lg_probes, lg_result, notLg>>

\* 189
login_goto ==
    /\ lg_pc = "goto"
    /\ \/ lg_pc' = "poll" /\ UNCHANGED <<lg_page, lg_raised>>
       \/ /\ lg_raised' = "goto" /\ lg_pc' = "outer_except"
          /\ lg_page' \in {"open", "closed"}
    /\ UNCHANGED <<lg_url, lg_polls, lg_success, lg_exit, lg_probes, lg_result, notLg>>

\* is_logged_in() at 223 or 245, inside the try of 201
ProbeInLoop ==
    \E r \in IsLoggedInOutcomes :
        /\ lg_probes' = Append(lg_probes, [at |-> "loop", r |-> r])
        /\ IF r = "raise"
           THEN lg_pc' = "inner_except" /\ UNCHANGED lg_success
           ELSE lg_pc' = "close_page" /\ lg_success' = (r = "True")

\* 221-224: the page is found closed
login_page_closed ==
    /\ lg_pc = "poll" /\ ~ TimedOut(lg_polls)
    /\ lg_page' = "closed"
    /\ lg_exit' = "closed"
    /\ ProbeInLoop
    /\ UNCHANGED <<lg_url, lg_polls, lg_raised, lg_result, notLg>>

\* 227-237: the URL matches a pattern
login_pattern_detected ==
    /\ lg_pc = "poll" /\ ~ TimedOut(lg_polls) /\ lg_page = "open"
    /\ \E u \in LoginPageURLs : MatchesSuccessPattern(u) /\ lg_url' = u
    /\ lg_success' = TRUE
    /\ lg_exit' = "pattern"
    /\ lg_pc' = "close_page"
    /\ UNCHANGED <<lg_page, lg_polls, lg_probes, lg_raised, lg_result, notLg>>

\* 240-246: the URL left the sign-in path and matches no pattern
login_moved_away ==
    /\ lg_pc = "poll" /\ ~ TimedOut(lg_polls) /\ lg_page = "open"
    /\ \E u \in LoginPageURLs :
        /\ ~ MatchesSuccessPattern(u) /\ ~ OnSignInPath(u)
        /\ lg_url' = u
    /\ lg_exit' = "moved"
    /\ ProbeInLoop
    /\ UNCHANGED <<lg_page, lg_polls, lg_raised, lg_result, notLg>>

\* 248-249: still on the sign-in path, one more second
login_wait ==
    /\ lg_pc = "poll" /\ ~ TimedOut(lg_polls) /\ lg_page = "open"
    /\ \E u \in LoginPageURLs :
        /\ ~ MatchesSuccessPattern(u) /\ OnSignInPath(u)
        /\ lg_url' = u
    /\ lg_polls' = lg_polls + 1
    /\ UNCHANGED <<lg_pc, lg_page, lg_success, lg_exit, lg_probes, lg_raised,
                   lg_result, notLg>>

\* 219, 252-253: the five minutes are over
login_timeout ==
    /\ lg_pc = "poll" /\ TimedOut(lg_polls)
    /\ lg_exit' = "timeout"
    /\ lg_pc' = "close_page"
    /\ UNCHANGED <<lg_page, lg_url, lg_polls, lg_success, lg_probes, lg_raised,
                   lg_result, notLg>>

\* 255-263: is_logged_in() again, its own exception swallowed
login_inner_except ==
    /\ lg_pc = "inner_except"
    /\ \E r \in IsLoggedInOutcomes :
        /\ lg_probes' = Append(lg_probes, [at |-> "except", r |-> r])
        /\ lg_success' = IF r = "raise" THEN lg_success ELSE r = "True"
    /\ lg_pc' = "close_page"
    /\ UNCHANGED <<lg_page, lg_url, lg_polls, lg_exit, lg_raised, lg_result, notLg>>

\* 266-270: page.close(), its exception logged
login_close_page ==
    /\ lg_pc = "close_page"
    /\ IF lg_page = "open" THEN lg_page' \in {"closed", "open"} ELSE UNCHANGED lg_page
    /\ lg_pc' = "after_close"
    /\ UNCHANGED <<lg_url, lg_polls, lg_success, lg_exit, lg_probes, lg_raised,
                   lg_result, notLg>>

\* 272-276
login_return ==
    /\ lg_pc = "after_close" /\ ~ NeedsFinalCheck(lg_success)
    /\ lg_result' = BoolStr(lg_success)
    /\ lg_pc' = "done"
    /\ UNCHANGED <<lg_page, lg_url, lg_polls, lg_success, lg_exit, lg_probes,
                   lg_raised, notLg>>

\* 277-293: final_check = await self.is_logged_in()
login_final_check ==
    /\ lg_pc = "after_close" /\ NeedsFinalCheck(lg_success)
    /\ \E r \in IsLoggedInOutcomes :
        /\ lg_probes' = Append(lg_probes, [at |-> "final", r |-> r])
        /\ IF r = "raise"
           THEN /\ lg_raised' = "final_check" /\ lg_pc' = "outer_except"
                /\ UNCHANGED lg_result
           ELSE /\ lg_result' = BoolStr(FinalResult(r)) /\ lg_pc' = "done"
                /\ UNCHANGED lg_raised
    /\ UNCHANGED <<lg_page, lg_url, lg_polls, lg_success, lg_exit, notLg>>

\* 295-299
login_outer_except ==
    /\ lg_pc = "outer_except"
    /\ lg_result' = "False"
    /\ lg_pc' = "done"
    /\ UNCHANGED <<lg_page, lg_url, lg_polls, lg_success, lg_exit, lg_probes,
                   lg_raised, notLg>>

NextLogin ==
    \/ login_new_page \/ login_goto \/ login_page_closed \/ login_pattern_detected
    \/ login_moved_away \/ login_wait \/ login_timeout \/ login_inner_except
    \/ login_close_page \/ login_return \/ login_final_check \/ login_outer_except

SpecLogin == InitLogin /\ [][NextLogin]_vars

\* ==================================================== GBPUploader.upload_images
\* upload_images (489-600) on its own, with and without a caller-supplied
\* page.  A call that raises may be the page having been closed under it.
InitUploadImages ==
    /\ FacadeInit /\ RqIdle /\ ClIdle /\ FtIdle /\ PiIdle /\ DlIdle /\ PrIdle
    /\ LgIdle /\ MlIdle
    /\ MwIdle
    /\ WkIdle
    /\ ui_pc = "begin" /\ ui_supplied \in BOOLEAN
    /\ ui_page = (IF ui_supplied THEN "open" ELSE "none")
    /\ ui_failed = "none" /\ ui_diag = {} /\ ui_closes = 0
    /\ ui_pending = "none" /\ ui_result = "none"

\* 482-487 and 594: page.screenshot() on a closed page raises and
\* _save_error_page swallows it, so files are written only for an open page
CapturesDiagnostics(page_state) == page_state = "open"

\* 598: the finally closes only a page upload_images created itself
ClosesOwnPage(should_create_page, page_state) ==
    should_create_page /\ page_state = "open"

\* a step raised inside an inner try: 524-527, 540-543, 583-590
UiCaught(step, filename_base, page_after) ==
    /\ ui_failed' = step /\ ui_page' = page_after
    /\ ui_diag' = IF CapturesDiagnostics(page_after)
                  THEN ui_diag \cup {filename_base} ELSE ui_diag
    /\ ui_pending' = "False" /\ ui_pc' = "finally"

\* a step raised with only the outer handler (592) around it
UiUnexpected(step, page_after) ==
    /\ ui_failed' = step /\ ui_page' = page_after /\ ui_pc' = "except"
    /\ UNCHANGED <<ui_diag, ui_pending>>

UiStepOk(next_pc) ==
    /\ ui_pc' = next_pc
    /\ UNCHANGED <<ui_page, ui_failed, ui_diag, ui_pending>>

\* the page after a call on it raised: as it was, or closed under the call
PageAfterRaise == IF ui_page = "open" THEN {"open", "closed"} ELSE {ui_page}

\* 492-511
ui_begin ==
    /\ ui_pc = "begin"
    /\ UiStepOk(IF ui_supplied THEN "wait_add" ELSE "new_page")
    /\ UNCHANGED <<ui_supplied, ui_closes, ui_result, notUi>>

\* 512: context.new_page()
ui_new_page ==
    /\ ui_pc = "new_page"
    /\ \/ /\ ui_page' = "open" /\ ui_pc' = "goto"
          /\ UNCHANGED <<ui_failed, ui_diag, ui_pending>>
       \/ UiUnexpected("new_page", "none")
    /\ UNCHANGED <<ui_supplied, ui_closes, ui_result, notUi>>

\* 514: upload_page.goto(gbp_url); a timeout is an Exception like any other
ui_goto ==
    /\ ui_pc = "goto"
    /\ \/ UiStepOk("wait_add")
       \/ \E pg \in PageAfterRaise : UiUnexpected("goto", pg)
    /\ UNCHANGED <<ui_supplied, ui_closes, ui_result, notUi>>

\* 520-527
ui_wait_add_photo ==
    /\ ui_pc = "wait_add"
    /\ \/ UiStepOk("click_add")
       \/ IF WaitTimeoutIsFatal("add_button")
          THEN UiCaught("wait_add_photo", "error_add_button", ui_page)
          ELSE UiStepOk("click_add")
       \/ \E pg \in PageAfterRaise : UiUnexpected("wait_add_photo", pg)
    /\ UNCHANGED <<ui_supplied, ui_closes, ui_result, notUi>>

\* 530
ui_click_add_photo ==
    /\ ui_pc = "click_add"
    /\ \/ UiStepOk("wait_iframe")
       \/ \E pg \in PageAfterRaise : UiUnexpected("click_add_photo", pg)
    /\ UNCHANGED <<ui_supplied, ui_closes, ui_result, notUi>>

\* 534-543
ui_wait_upload_iframe ==
    /\ ui_pc = "wait_iframe"
    /\ \/ UiStepOk("chooser")
       \/ IF WaitTimeoutIsFatal("file_upload_iframe")
          THEN UiCaught("wait_upload_iframe", "error_file_upload_iframe", ui_page)
          ELSE UiStepOk("chooser")
       \/ \E pg \in PageAfterRaise : UiUnexpected("wait_upload_iframe", pg)
    /\ UNCHANGED <<ui_supplied, ui_closes, ui_result, notUi>>

\* 550-557: arm the chooser, click the select-files control, take the
\* chooser; TimeoutError goes to 583, any other exception to 587
ui_expect_file_chooser ==
    /\ ui_pc = "chooser"
    /\ \/ UiStepOk("set_files")
       \/ UiCaught("expect_file_chooser", "error_file_chooser_timeout", ui_page)
       \/ \E pg \in PageAfterRaise :
             UiCaught("expect_file_chooser", "error_file_chooser", pg)
    /\ UNCHANGED <<ui_supplied, ui_closes, ui_result, notUi>>

\* 562
ui_set_files ==
    /\ ui_pc = "set_files"
    /\ \/ UiStepOk("wait_hidden")
       \/ UiCaught("set_files", "error_file_chooser_timeout", ui_page)
       \/ \E pg \in PageAfterRaise : UiCaught("set_files", "error_file_chooser", pg)
    /\ UNCHANGED <<ui_supplied, ui_closes, ui_result, notUi>>

\* 570-581: hidden or timed out is `return True`
ui_wait_iframe_hidden ==
    /\ ui_pc = "wait_hidden"
    /\ \/ \E o \in {"hidden", "timeout"} :
             IF HiddenWaitResult(o)
             THEN /\ ui_pending' = "True" /\ ui_pc' = "finally"
                  /\ UNCHANGED <<ui_page, ui_failed, ui_diag>>
             ELSE UiCaught("wait_iframe_hidden", "error_file_chooser_timeout", ui_page)
       \/ \E pg \in PageAfterRaise :
             UiCaught("wait_iframe_hidden", "error_file_chooser", pg)
    /\ UNCHANGED <<ui_supplied, ui_closes, ui_result, notUi>>

\* 592-596: the outer handler
ui_except ==
    /\ ui_pc = "except"
    /\ ui_diag' = IF ui_page # "none" /\ CapturesDiagnostics(ui_page)
                  THEN ui_diag \cup {"error_unexpected_upload"} ELSE ui_diag
    /\ ui_pending' = "False" /\ ui_pc' = "finally"
    /\ UNCHANGED <<ui_supplied, ui_page, ui_failed, ui_closes, ui_result, notUi>>

\* 597-600: upload_page.close() is awaited with no guard; when it raises the
\* exception replaces the value being returned
ui_finally ==
    /\ ui_pc = "finally"
    /\ IF ClosesOwnPage(~ ui_supplied, ui_page)
       THEN /\ ui_closes' = ui_closes + 1
            /\ \/ ui_page' = "closed" /\ UNCHANGED ui_pending
               \/ ui_pending' = "raise" /\ ui_page' \in {"open", "closed"}
       ELSE UNCHANGED <<ui_page, ui_closes, ui_pending>>
    /\ ui_pc' = "return"
    /\ UNCHANGED <<ui_supplied, ui_failed, ui_diag, ui_result, notUi>>

ui_return ==
    /\ ui_pc = "return"
    /\ ui_result' = ui_pending /\ ui_pc' = "done"
    /\ UNCHANGED <<ui_supplied, ui_page, ui_failed, ui_diag, ui_closes, ui_pending,
                   notUi>>

NextUploadImages ==
    \/ ui_begin \/ ui_new_page \/ ui_goto \/ ui_wait_add_photo
    \/ ui_click_add_photo \/ ui_wait_upload_iframe \/ ui_expect_file_chooser
    \/ ui_set_files \/ ui_wait_iframe_hidden \/ ui_except \/ ui_finally
    \/ ui_return

SpecUploadImages == InitUploadImages /\ [][NextUploadImages]_vars

\* ================================================ GoogleAuthManager.manual_login
\* manual_login (305-461).  The user may click the injected button (console
\* message 'login_complete') or close the window while the loop sleeps.
InitManualLogin ==
    /\ FacadeInit /\ RqIdle /\ ClIdle /\ FtIdle /\ PiIdle /\ DlIdle /\ PrIdle /\ LgIdle
    /\ UiIdle
    /\ MwIdle
    /\ WkIdle
    /\ ml_pc = "new_page" /\ ml_page = "none" /\ ml_signal = FALSE /\ ml_polls = 0
    /\ ml_exit = "none" /\ ml_probe = "none" /\ ml_closes = 0
    /\ ml_raised = "none" /\ ml_result = "none"
    /\ ml_callback \in BOOLEAN
    /\ ml_notes = (IF ml_callback THEN <<"started">> ELSE <<>>)

\* 313-314, 322-323, 438-439, 448-449, 459-460: progress messages
MlNote(message) ==
    ml_notes' = IF ml_callback THEN Append(ml_notes, message) ELSE ml_notes

\* 421: the wait is a failure only with no signal and the page still open;
\* otherwise 431-434 re-check the login state
RechecksLogin_always(login_completed, page_is_closed) == TRUE
RechecksLogin(login_completed, page_is_closed) == login_completed \/ page_is_closed

\* 457-461: the outer handler returns False; it closes nothing
MlRaise(step) ==
    /\ ml_raised' = step /\ ml_result' = "False" /\ ml_pc' = "done"
    /\ MlNote("error")

\* 423-427, 440-444, 450-454: close the page if open, errors only logged
MlClosePage ==
    IF ml_page = "open"
    THEN ml_closes' = ml_closes + 1 /\ ml_page' \in {"closed", "open"}
    ELSE UNCHANGED <<ml_closes, ml_page>>

\* 317: context.new_page()
ml_new_page ==
    /\ ml_pc = "new_page"
    /\ \/ /\ ml_page' = "open" /\ ml_pc' = "goto"
          /\ UNCHANGED <<ml_raised, ml_result, ml_notes>>
       \/ MlRaise("new_page") /\ UNCHANGED ml_page
    /\ UNCHANGED <<ml_signal, ml_polls, ml_exit, ml_probe, ml_closes, ml_callback,
                   notMl>>

\* 320: page.goto("https://accounts.google.com", timeout=30000)
ml_goto ==
    /\ ml_pc = "goto"
    /\ \/ /\ ml_pc' = "evaluate" /\ MlNote("window open")
          /\ UNCHANGED <<ml_page, ml_raised, ml_result>>
       \/ MlRaise("goto") /\ ml_page' \in {"open", "closed"}
    /\ UNCHANGED <<ml_signal, ml_polls, ml_exit, ml_probe, ml_closes, ml_callback,
                   notMl>>

\* 329-402: register the console listener and inject the button
ml_evaluate ==
    /\ ml_pc = "evaluate"
    /\ \/ ml_pc' = "loop" /\ UNCHANGED <<ml_page, ml_raised, ml_result, ml_notes>>
       \/ MlRaise("evaluate") /\ ml_page' \in {"open", "closed"}
    /\ UNCHANGED <<ml_signal, ml_polls, ml_exit, ml_probe, ml_closes, ml_callback,
                   notMl>>

\* 408-411: the while condition, then the test of login_completed
ml_loop ==
    /\ ml_pc = "loop"
    /\ IF TimedOut(ml_polls) THEN ml_exit' = "expired" /\ ml_pc' = "after_wait"
       ELSE IF ml_signal THEN ml_exit' = "signal" /\ ml_pc' = "after_wait"
       ELSE ml_pc' = "sleep" /\ UNCHANGED ml_exit
    /\ UNCHANGED <<ml_page, ml_signal, ml_polls, ml_probe, ml_closes, ml_raised,
                   ml_callback, ml_notes, ml_result, notMl>>

\* 414-419: sleep one second, then look whether the page was closed
ml_sleep ==
    /\ ml_pc = "sleep"
    /\ ml_polls' = ml_polls + 1
    /\ ml_signal' \in {ml_signal, TRUE}
    /\ ml_page' \in {"open", "closed"}
    /\ IF ml_page' = "closed" THEN ml_exit' = "closed" /\ ml_pc' = "after_wait"
                              ELSE ml_pc' = "loop" /\ UNCHANGED ml_exit
    /\ UNCHANGED <<ml_probe, ml_closes, ml_raised, ml_callback, ml_notes, ml_result,
                   notMl>>

\* 421-428: no signal and the page still open is the timeout: close, False
ml_after_wait ==
    /\ ml_pc = "after_wait"
    /\ IF RechecksLogin(ml_signal, ml_page = "closed")
       THEN /\ ml_pc' = "recheck"
            /\ UNCHANGED <<ml_page, ml_closes, ml_result>>
       ELSE MlClosePage /\ ml_result' = "False" /\ ml_pc' = "done"
    /\ UNCHANGED <<ml_signal, ml_polls, ml_exit, ml_probe, ml_raised, ml_callback,
                   ml_notes, notMl>>

\* 431-455: is_logged_in() decides the result; the page is closed either way
ml_recheck ==
    /\ ml_pc = "recheck"
    /\ \E r \in IsLoggedInOutcomes :
        /\ ml_probe' = r
        /\ IF r = "raise"
           THEN MlRaise("is_logged_in") /\ UNCHANGED <<ml_page, ml_closes>>
           ELSE /\ MlClosePage /\ ml_result' = r /\ ml_pc' = "done"
                /\ MlNote(IF r = "True" THEN "succeeded" ELSE "not confirmed")
                /\ UNCHANGED ml_raised
    /\ UNCHANGED <<ml_signal, ml_polls, ml_exit, ml_callback, notMl>>

NextManualLogin ==
    \/ ml_new_page \/ ml_goto \/ ml_evaluate \/ ml_loop \/ ml_sleep
    \/ ml_after_wait \/ ml_recheck

SpecManualLogin == InitManualLogin /\ [][NextManualLogin]_vars

\* ===================================================== MainWindow.fetch_images
\* The fetch button (367) runs fetch_images (716-750); the workers it starts
\* report back through on_salon_name_fetched (752-778) and on_worker_error
\* (1091-1119).  The user may retype the URL field at any time.
FieldChars == {" ", "h"}
FieldTexts == UNION {[1..n -> FieldChars] : n \in 0..MaxFieldLen}

\* str.strip() at 718: drop the whitespace at both ends
Strip(text) ==
    LET kept == {i \in DOMAIN text : text[i] # " "}
    IN  IF kept = {} THEN <<>>
        ELSE SubSeq(text, CHOOSE i \in kept : \A j \in kept : i <= j,
                          CHOOSE i \in kept : \A j \in kept : j <= i)

\* 719: `if not hpb_url`
UrlMissing_never(hpb_url) == FALSE
UrlMissing(hpb_url) == hpb_url = <<>>

InitFetchImages ==
    /\ FacadeInit /\ RqIdle /\ ClIdle /\ FtIdle /\ PiIdle /\ DlIdle /\ PrIdle /\ LgIdle
    /\ UiIdle /\ MlIdle
    /\ WkIdle
    /\ mw_pc = "idle" /\ mw_text \in FieldTexts /\ mw_fetch = TRUE
    /\ mw_upload = FALSE /\ mw_select_all = FALSE /\ mw_deselect_all = FALSE
    /\ mw_workers = 0 /\ mw_warnings = 0 /\ mw_calls = 0
    /\ mw_arg = <<>> /\ mw_last = "none"

\* the user types into hpb_url_input
edit_hpb_url ==
    /\ \E t \in FieldTexts : t # mw_text /\ mw_text' = t
    /\ UNCHANGED <<mw_pc, mw_fetch, mw_upload, mw_select_all, mw_deselect_all,
                   mw_workers, mw_warnings, mw_calls, mw_arg, mw_last, notMw>>

\* 716-750, run by a click on the enabled fetch button
fetch_images ==
    /\ mw_fetch /\ mw_calls < MaxClicks
    /\ mw_calls' = mw_calls + 1 /\ mw_arg' = mw_text
    /\ IF UrlMissing(Strip(mw_text))
       THEN /\ mw_warnings' = mw_warnings + 1 /\ mw_last' = "warned"
            /\ UNCHANGED <<mw_pc, mw_fetch, mw_upload, mw_select_all,
                           mw_deselect_all, mw_workers>>
       ELSE /\ mw_fetch' = FALSE /\ mw_upload' = FALSE
            /\ mw_select_all' = FALSE /\ mw_deselect_all' = FALSE
            /\ mw_workers' = mw_workers + 1 /\ mw_pc' = "salon_name"
            /\ mw_last' = "started" /\ UNCHANGED mw_warnings
    /\ UNCHANGED <<mw_text, notMw>>

\* whether the slot run for a worker that ended the chain enables the fetch
\* button: the else branch of on_salon_name_fetched (775-777) for a null or
\* empty name, on_worker_error (1119) for a raise
ReenablesFetch_notOnError(outcome) == outcome = "none"
ReenablesFetch(outcome) == outcome \in {"none", "raise"}

\* 44-54 with 752-778 and 1091-1119: the get_salon_name worker reports a
\* name (the next worker is started), nothing, or an error
salon_name_worker_done ==
    /\ mw_pc = "salon_name"
    /\ \E outcome \in {"name", "none", "raise"} :
          IF outcome = "name"
          THEN /\ mw_workers' = mw_workers + 1 /\ mw_pc' = "style_images"
               /\ UNCHANGED mw_fetch
          ELSE /\ mw_fetch' = (mw_fetch \/ ReenablesFetch(outcome))
               /\ mw_pc' = "idle" /\ UNCHANGED mw_workers
    /\ UNCHANGED <<mw_text, mw_upload, mw_select_all, mw_deselect_all, mw_warnings,
                   mw_calls, mw_arg, mw_last, notMw>>

\* 767 against hpb_scraper 135: fetch_latest_style_images takes no `order`
\* keyword, so the worker raises TypeError and on_worker_error runs
style_images_worker_done ==
    /\ mw_pc = "style_images"
    /\ mw_fetch' = (mw_fetch \/ ReenablesFetch("raise")) /\ mw_pc' = "idle"
    /\ UNCHANGED <<mw_text, mw_upload, mw_select_all, mw_deselect_all, mw_workers,
                   mw_warnings, mw_calls, mw_arg, mw_last, notMw>>

NextFetchImages ==
    \/ edit_hpb_url \/ fetch_images \/ salon_name_worker_done
    \/ style_images_worker_done

SpecFetchImages == InitFetchImages /\ [][NextFetchImages]_vars

\* the thread pool runs every worker it was handed and the event loop
\* delivers every signal; the user is free never to click
FairSpecFetchImages ==
    /\ SpecFetchImages
    /\ WF_vars(salon_name_worker_done) /\ WF_vars(style_images_worker_done)

\* ================================== main_window.py, Worker and the upload slots
\* ------------------------------------------------------------ Worker.run 44-54
\* what the function handed to a Worker does: returns a value or raises
WorkerOutcomes == {"True", "False", "raise"}

\* 47-52: result after a return, error after a raise
ResultSignal_always(outcome) == "result"
ResultSignal(outcome) == IF outcome = "raise" THEN "error" ELSE "result"

\* 36-41: a Worker as constructed; emitted is the history of its signals
NewWorker(fn) == [fn |-> fn, st |-> "pooled", out |-> "none", emitted |-> <<>>]

\* the workers holding a pool thread: run() entered and not yet left
Busy == {i \in DOMAIN wk_workers : wk_workers[i].st \in {"running", "emitted"}}

\* the queued signal the main thread handles next
NextSignal(fn, signal) ==
    /\ wk_queue # <<>>
    /\ wk_workers[wk_queue[1][1]].fn = fn
    /\ wk_queue[1][2] = signal

InitUploadSlots ==
    /\ FacadeInit /\ RqIdle /\ ClIdle /\ FtIdle /\ PiIdle /\ DlIdle /\ PrIdle /\ LgIdle
    /\ UiIdle /\ MlIdle /\ MwIdle
    /\ wk_threads \in 1..2
    /\ wk_button = FALSE /\ wk_shown = 0 /\ wk_checked = 0
    /\ wk_workers = <<>> /\ wk_queue = <<>> /\ wk_clicks = 0
    /\ wk_logins = 0 /\ wk_warnings = 0

\* on_images_downloaded 800-812 with a non-empty list: display_images makes one
\* checked checkbox per image (956), then the upload button is enabled
on_images_downloaded ==
    /\ wk_shown = 0
    /\ \E n \in 1..MaxImgs : wk_shown' = n /\ wk_checked' = n
    /\ wk_button' = TRUE
    /\ UNCHANGED <<wk_threads, wk_workers, wk_queue, wk_clicks, wk_logins,
                   wk_warnings, notWk>>

\* select_all_images 975-978
select_all_images ==
    /\ wk_shown > 0 /\ wk_checked # wk_shown
    /\ wk_checked' = wk_shown
    /\ UNCHANGED <<wk_threads, wk_button, wk_shown, wk_workers, wk_queue,
                   wk_clicks, wk_logins, wk_warnings, notWk>>

\* deselect_all_images 980-983
deselect_all_images ==
    /\ wk_shown > 0 /\ wk_checked # 0
    /\ wk_checked' = 0
    /\ UNCHANGED <<wk_threads, wk_button, wk_shown, wk_workers, wk_queue,
                   wk_clicks, wk_logins, wk_warnings, notWk>>

\* upload_selected_images 985-1010, the clicked slot of the upload button (385):
\* warn and return on an empty URL or an empty selection, else start a
\* check_login worker; the button is left as it is
upload_selected_images ==
    /\ wk_button /\ wk_clicks < MaxUploadClicks
    /\ wk_clicks' = wk_clicks + 1
    /\ \E gbp_url \in FieldTexts :
          IF UrlMissing(Strip(gbp_url)) \/ wk_checked = 0
          THEN wk_warnings' = wk_warnings + 1 /\ UNCHANGED wk_workers
          ELSE /\ Len(wk_workers) < MaxWorkers
               /\ wk_workers' = Append(wk_workers, NewWorker("check_login"))
               /\ UNCHANGED wk_warnings
    /\ UNCHANGED <<wk_threads, wk_button, wk_shown, wk_checked, wk_queue,
                   wk_logins, notWk>>

\* 46: a pool thread takes the oldest waiting worker and run() emits started
worker_run ==
    /\ Cardinality(Busy) < wk_threads
    /\ \E i \in DOMAIN wk_workers :
          /\ wk_workers[i].st = "pooled"
          /\ \A j \in 1..(i - 1) : wk_workers[j].st # "pooled"
          /\ wk_workers' = [wk_workers EXCEPT ![i].st = "running",
                                              ![i].emitted = <<"started">>]
    /\ UNCHANGED <<wk_threads, wk_button, wk_shown, wk_checked, wk_queue,
                   wk_clicks, wk_logins, wk_warnings, notWk>>

\* 47-52: the call ends; result carries the value, error the message
worker_call_ends ==
    /\ \E i \in DOMAIN wk_workers, outcome \in WorkerOutcomes :
          /\ wk_workers[i].st = "running"
          /\ wk_workers' =
                 [wk_workers EXCEPT
                     ![i].st = "emitted", ![i].out = outcome,
                     ![i].emitted = Append(@, ResultSignal(outcome))]
          /\ wk_queue' = Append(wk_queue, <<i, ResultSignal(outcome)>>)
    /\ UNCHANGED <<wk_threads, wk_button, wk_shown, wk_checked, wk_clicks,
                   wk_logins, wk_warnings, notWk>>

\* 53-54: the finally emits finished and run() leaves the thread
worker_finally ==
    /\ \E i \in DOMAIN wk_workers :
          /\ wk_workers[i].st = "emitted"
          /\ wk_workers' = [wk_workers EXCEPT ![i].st = "finished",
                                              ![i].emitted = Append(@, "finished")]
          /\ wk_queue' = Append(wk_queue, <<i, "finished">>)
    /\ UNCHANGED <<wk_threads, wk_button, wk_shown, wk_checked, wk_clicks,
                   wk_logins, wk_warnings, notWk>>

\* proceed_with_upload 1012-1051, the result slot of the check worker (1007):
\* not logged in: ask, perform_google_login on Yes, return; logged in: disable
\* the upload button and start an upload_to_gbp worker
proceed_with_upload ==
    /\ NextSignal("check_login", "result")
    /\ wk_queue' = Tail(wk_queue)
    /\ IF wk_workers[wk_queue[1][1]].out = "True"
       THEN /\ Len(wk_workers) < MaxWorkers
            /\ wk_button' = FALSE
            /\ wk_workers' = Append(wk_workers, NewWorker("upload_to_gbp"))
            /\ UNCHANGED wk_logins
       ELSE /\ \E reply \in {"Yes", "No"} :
                  wk_logins' = wk_logins + (IF reply = "Yes" THEN 1 ELSE 0)
            /\ UNCHANGED <<wk_button, wk_workers>>
    /\ UNCHANGED <<wk_threads, wk_shown, wk_checked, wk_clicks, wk_warnings,
                   notWk>>

\* on_upload_result 1053-1089, the result slot of the upload worker (1048):
\* messages and button style only
on_upload_result ==
    /\ NextSignal("upload_to_gbp", "result")
    /\ wk_queue' = Tail(wk_queue)
    /\ UNCHANGED <<wk_threads, wk_button, wk_shown, wk_checked, wk_workers,
                   wk_clicks, wk_logins, wk_warnings, notWk>>

\* on_worker_error 1091-1119, the error slot of both workers (1008, 1049): it
\* restyles the upload button and enables the fetch button only
on_worker_error ==
    /\ NextSignal("check_login", "error") \/ NextSignal("upload_to_gbp", "error")
    /\ wk_queue' = Tail(wk_queue)
    /\ UNCHANGED <<wk_threads, wk_button, wk_shown, wk_checked, wk_workers,
                   wk_clicks, wk_logins, wk_warnings, notWk>>

\* the finished slot of both workers (1009, 1050):
\* lambda: self.upload_button.setEnabled(True)
on_worker_finished ==
    /\ NextSignal("check_login", "finished") \/ NextSignal("upload_to_gbp", "finished")
    /\ wk_queue' = Tail(wk_queue)
    /\ wk_button' = TRUE
    /\ UNCHANGED <<wk_threads, wk_shown, wk_checked, wk_workers, wk_clicks,
                   wk_logins, wk_warnings, notWk>>

NextUploadSlots ==
    \/ on_images_downloaded \/ select_all_images \/ deselect_all_images
    \/ upload_selected_images
    \/ worker_run \/ worker_call_ends \/ worker_finally
    \/ proceed_with_upload \/ on_upload_result \/ on_worker_error
    \/ on_worker_finished

SpecUploadSlots == InitUploadSlots /\ [][NextUploadSlots]_vars

\* ======================================================= the interactive waits
\* login() and manual_login() side by side, each on its own context
InitWaits ==
    /\ FacadeInit /\ RqIdle /\ ClIdle /\ FtIdle /\ PiIdle /\ DlIdle /\ PrIdle
    /\ UiIdle /\ MwIdle
    /\ WkIdle
    /\ lg_pc = "new_page"
    /\ lg_page = "none" /\ lg_url = <<>> /\ lg_polls = 0
    /\ lg_success = FALSE /\ lg_exit = "none" /\ lg_probes = <<>>
    /\ lg_raised = "none" /\ lg_result = "none"
    /\ ml_pc = "new_page" /\ ml_page = "none" /\ ml_signal = FALSE /\ ml_polls = 0
    /\ ml_exit = "none" /\ ml_probe = "none" /\ ml_closes = 0
    /\ ml_raised = "none" /\ ml_result = "none"
    /\ ml_callback \in BOOLEAN
    /\ ml_notes = (IF ml_callback THEN <<"started">> ELSE <<>>)

NextWaits == NextLogin \/ NextManualLogin

SpecWaits == InitWaits /\ [][NextWaits]_vars

\* ================================================================ claims

\* C1: in upload_images, once the file chooser fired and set_files completed,
\* a timed-out wait for the upload iframe to hide still makes upload_images
\* return True; upload_images captures no diagnostics for it (only a warning).
UploadImagesDiagnostics ==
    {"error_add_button", "error_file_upload_iframe", "error_file_chooser_timeout",
     "error_file_chooser", "error_unexpected_upload"}

C1_HiddenTimeoutStillSuccess ==
    (u_chooser = "fired" /\ u_set = "ok" /\ u_hidden = "timeout")
        => (upload_success = "True" /\ diag \cap UploadImagesDiagnostics = {})

C1_Witness ==
    u_chooser = "fired" /\ u_set = "ok" /\ u_hidden = "timeout"
    /\ upload_success = "True"

\* C2: when neither the owner-check control nor the add-photo control was
\* detected by the 1 s probes, the upload flow does not return early: it is
\* at, or has performed, the 60 s add-photo wait of upload_images.
NeitherDetected ==
    owner_probe \in {"timeout", "error"} /\ add_probe \in {"timeout", "error"}

C2_NeitherDetectedStillUploads ==
    NeitherDetected => (pc = "u_wait_add" \/ u_add # "none")

C2_Witness ==
    owner_probe = "timeout" /\ add_probe = "timeout" /\ u_add # "none"
    /\ ret # "none"

\* C3: if the add-photo control, or after it the upload iframe, does not become
\* visible within its 60 s wait, upload_images has returned False with the
\* diagnostics of that step captured, and the file chooser was never armed and
\* set_files never called in that execution.
C3_FatalWaitTimeout ==
    /\ u_add = "timeout" =>
         /\ upload_success = "False" /\ "error_add_button" \in diag
         /\ u_iframe = "none" /\ u_chooser = "none" /\ u_set = "none"
    /\ u_iframe = "timeout" =>
         /\ upload_success = "False" /\ "error_file_upload_iframe" \in diag
         /\ u_add = "ok" /\ u_chooser = "none" /\ u_set = "none"

C3_Witness ==
    u_add = "ok" /\ u_iframe = "timeout" /\ upload_success = "False"
    /\ ret = "False"

\* C4: whenever login_to_google, manual_login or upload_to_gbp returns True,
\* the session-state file was written during that call from the live context,
\* before close() was entered.
C4_SuccessImpliesStateSaved ==
    (op \in {"login_to_google", "manual_login", "upload_to_gbp"} /\ ret = "True")
        => (savedLive /\ file # file0)

C4_Witness ==
    op = "upload_to_gbp" /\ ret = "True" /\ savedLive /\ context = "closed"

\* C5 (as stated): the session-state file is never deleted once it exists, and
\* a call that changed it is a login or upload call whose outcome is success;
\* check_login and every failed login/upload leave the file unchanged.
C5_FileWrittenOnlyOnSuccess ==
    /\ file0 # 0 => file # 0
    /\ op = "check_login" => file = file0
    /\ (ret # "none" /\ file # file0) => ret = "True"

\* C6: start() creates the context with restored state iff the session-state
\* file exists when the session starts; hence every session started after a
\* login entry point returned True restores state.
C6_RestoreIffFileExists ==
    context # "none" =>
        /\ restored <=> (file0 # 0)
        /\ loggedBefore => restored

C6_Witness ==
    context = "open" /\ loggedBefore /\ restored

\* C7: on every exit path of every entry point (True, False, or an exception
\* from start() or from the work) close() has been invoked before the entry
\* point returns or raises, and each call invokes start() at most once.
C7_CloseOnEveryExit ==
    /\ (ret # "none") => closeInvoked
    /\ startCount <= 1
    /\ Len(launches) <= 1

C7_Witness ==
    ret = "raise" /\ startFailed /\ closeInvoked /\ startCount = 1

\* C8 (as stated): close() tears down context, browser and engine with each
\* step independently guarded: once close() is over, every handle that was
\* set has had its teardown call issued, whatever an earlier step did.
C8_CloseStepsIndependent ==
    (closeInvoked /\ pc \in {"return", "idle"}) =>
        /\ context # "none" => "context" \in Range(closeCalls)
        /\ browser # "none" => "browser" \in Range(closeCalls)
        /\ playwright # "none" => "playwright" \in Range(closeCalls)

\* C9 (as stated): a failure inside start() reaches the caller of every entry
\* point as an exception; none converts it into False, none starts again.
C9_LaunchFailurePropagates ==
    (startFailed /\ ret # "none") => (ret = "raise" /\ startCount = 1)

\* C10 (as stated): login_to_google returns False only after both the primary
\* and the secondary engine family were tried, primary first.
C10_SecondEngineTried ==
    (op = "login_to_google" /\ ret = "False")
        => launches = <<"chromium", "firefox">>

\* C11: when every attempt fails with a transport or HTTP-status error,
\* _make_request(url, retries) has made exactly `retries` GET attempts when it
\* ends, and it ends by returning None.
C11_RetryExhaustion ==
    (rq_pc = "done" /\ "ok" \notin Range(rq_log))
        => (Attempts(rq_log) = rq_retries /\ rq_result = "None")

C11_Witness ==
    rq_pc = "done" /\ rq_retries = 3 /\ Attempts(rq_log) = 3
    /\ "ok" \notin Range(rq_log) /\ rq_result = "None"

\* C14 (as stated): a non-null result of _get_cleaned_image_url has no query string or
\* fragment and no occurrence of the cleanup substring, and cleaning that
\* result again returns it unchanged.
C14_CleanIdempotent ==
    (cl_pc \in {"again", "done"} /\ cl_result # NoneURL) =>
        /\ "?" \notin Range(cl_result)
        /\ "#" \notin Range(cl_result)
        /\ cl_pattern # <<>> => ~ InURL(cl_pattern, cl_result)
        /\ cl_pc = "done" => cl_again = cl_result

NoDuplicates(s) == \A i, j \in DOMAIN s : i # j => s[i] # s[j]

\* C12: the list fetch_latest_style_images builds and returns never holds a
\* normalized URL twice and is never longer than max_images_to_fetch.
C12_UniqueAndCapped ==
    /\ NoDuplicates(ft_list) /\ Len(ft_list) <= ft_max_images
    /\ ft_status = "returned" =>
           NoDuplicates(ft_result) /\ Len(ft_result) <= ft_max_images

\* the walk met a URL it already had, filled the list to the cap and returned
C12_Witness ==
    /\ ft_status = "returned" /\ ft_dup
    /\ ft_max_images = 2 /\ Len(ft_result) = 2
    /\ Len(ft_visited) = 2

IsDataURI(src) == Len(src) > 0 /\ src[1] = "data:"

\* C15 (as stated): _get_cleaned_image_url returns null for every data: URI
\* and for every src that does not start with http:// or https:// (an empty or
\* absent src included), so no such URL is in the list fetch builds.
C15_NullUnlessHttpSrc ==
    /\ (ft_cleaned # <<>> /\ (IsDataURI(ft_src) \/ ~ StartsWithHttp(ft_src))) =>
           ft_cleaned = NoneURL
    /\ \A i \in DOMAIN ft_list :
           StartsWithHttp(ft_list[i]) /\ ~ IsDataURI(ft_list[i])

\* C15 (amended): the result is null for an empty or absent src and for every
\* data: URI; every non-null result, and so every URL in the list fetch builds,
\* starts with http:// or https:// and contains no ";base64,".
C15_NullUnlessHttpCleaned ==
    /\ ft_cleaned # <<>> =>
           /\ (ft_src = <<>> \/ IsDataURI(ft_src)) => ft_cleaned = NoneURL
           /\ ft_cleaned # NoneURL =>
                  /\ StartsWithHttp(ft_cleaned)
                  /\ ~ InURL(<<";base64,">>, ft_cleaned)
    /\ \A i \in DOMAIN ft_list :
           /\ StartsWithHttp(ft_list[i])
           /\ ~ IsDataURI(ft_list[i])
           /\ ~ InURL(<<";base64,">>, ft_list[i])

\* a data: URI was just rejected, after an upper-case HTTP:// src was accepted
\* in its lower-case form
C15_Witness ==
    /\ ft_pc = "img"
    /\ IsDataURI(ft_src) /\ ft_cleaned = NoneURL
    /\ <<"http:", "//", "x">> \in Range(ft_list)

Descending(s) == \A i, j \in DOMAIN s : i < j => s[i] > s[j]
Ascending(s) == \A i, j \in DOMAIN s : i < j => s[i] < s[j]

\* C17 (as stated): a call that selects an order is accepted, and the pages are
\* requested last to first for "backward" and first to last for "forward".
C17_WalksInSelectedOrder ==
    (ft_pc = "done" /\ ft_caller # "direct") =>
        /\ ft_status = "returned"
        /\ ft_caller = "backward" => Descending(ft_visited)
        /\ ft_caller = "forward" => Ascending(ft_visited)

AllDigits(ds) == ds # <<>> /\ \A i \in DOMAIN ds : ds[i] \in Digits

\* the whole text is a/bP, and then its b
IsSlashForm(text) ==
    \E k \in 2..(Len(text) - 2) :
        /\ AllDigits(SubSeq(text, 1, k - 1)) /\ text[k] = "/"
        /\ AllDigits(SubSeq(text, k + 1, Len(text) - 1))
        /\ text[Len(text)] = "P"
SlashFormB(text) ==
    LET k == CHOOSE i \in DOMAIN text : text[i] = "/"
    IN ToInt(SubSeq(text, k + 1, Len(text) - 1))
\* the whole text is ZNP
IsTotalForm(text) ==
    /\ Len(text) >= 3 /\ text[1] = "Z" /\ text[Len(text)] = "P"
    /\ AllDigits(SubSeq(text, 2, Len(text) - 1))
\* some part of the text has one of the two forms
Recognized(text) ==
    \E i, j \in DOMAIN text :
        i <= j /\ (IsSlashForm(SubSeq(text, i, j)) \/ IsTotalForm(SubSeq(text, i, j)))

\* C13: _get_style_page_info returns, never raises; max_page is b for a text
\* a/bP, N for a text ZNP, and 1 for a text with neither form in it, for a
\* missing element, a missing selector, a failed fetch or a parse error.
C13_PaginationParsing ==
    pi_pc = "done" =>
        /\ pi_status = "returned"
        /\ pi_case # "text" => pi_max_page = 1
        /\ pi_case = "text" =>
               /\ IsSlashForm(pi_text) => pi_max_page = SlashFormB(pi_text)
               /\ IsTotalForm(pi_text) =>
                      pi_max_page = ToInt(SubSeq(pi_text, 2, Len(pi_text) - 1))
               /\ ~ Recognized(pi_text) => pi_max_page = 1

\* the text "1/2P" gave max_page 2
C13_Witness ==
    /\ pi_pc = "done" /\ pi_case = "text"
    /\ pi_text = <<"1", "/", "2", "P">>
    /\ pi_max_page = 2

\* the result holds, in input order, one path for each index of S and no other
PathsExactlyFor(result, S) ==
    /\ {result[k][1] : k \in DOMAIN result} = S
    /\ \A j, k \in DOMAIN result : j < k => result[j][1] < result[k][1]
    /\ \A k \in DOMAIN result :
           result[k][2] = FileExtension(dl_urls[result[k][1]].ext)
Reachable == {i \in DOMAIN dl_urls : dl_urls[i].yields = "content"}

\* C16 (as stated): download_images returns exactly one path per URL whose
\* fetch yields non-empty content, in input order.
C16_OnePathPerReachableUrl ==
    dl_pc = "done" => PathsExactlyFor(dl_result, Reachable)

\* C16 (amended): when the directory exists or can be made, the result holds
\* exactly one path per URL whose fetch yields non-empty content and whose file
\* was written, in input order; when it cannot be made the result is empty.
C16_OnePathPerWrittenUrl ==
    dl_pc = "done" =>
        IF dl_dir = "failed" THEN dl_result = <<>>
        ELSE PathsExactlyFor(dl_result, Reachable \ dl_errors)

\* three URLs, the second unreachable: two paths, numbered 1 and 3
C16_Witness ==
    /\ dl_pc = "done" /\ Len(dl_urls) = 3
    /\ Reachable = {1, 3} /\ dl_errors = {}
    /\ Len(dl_result) = 2
    /\ dl_result[1][1] = 1 /\ dl_result[2][1] = 3

\* C18 (as stated): is_logged_in returns True exactly when the URL after the
\* optional navigation contains myaccount.google.com or
\* accounts.google.com/ManageAccount or does not contain
\* accounts.google.com/ServiceLogin, and returns False when a call of the
\* probe raised.
C18_ProbeClassifiesURL ==
    pr_pc = "done" =>
        /\ pr_raised # "none" => pr_result = "False"
        /\ pr_raised = "none" =>
               /\ pr_result \in {"True", "False"}
               /\ pr_result = "True" <=>
                      \/ InURL(<<"myaccount.google.com">>, pr_url)
                      \/ InURL(<<"accounts.google.com", "/ManageAccount">>, pr_url)
                      \/ ~ InURL(<<"accounts.google.com", "/ServiceLogin">>, pr_url)

LastProbe == lg_probes[Len(lg_probes)]

ProbeReturnedTrue == \E k \in DOMAIN lg_probes : lg_probes[k].r = "True"

StepOrder ==
    <<"is_logged_in", "goto", "owner_probe", "add_probe", "owner_check",
      "wait_add_photo", "click_add_photo", "wait_upload_iframe",
      "expect_file_chooser", "click_select_files", "set_files",
      "wait_iframe_hidden">>

Rank(step) == CHOOSE k \in DOMAIN StepOrder : StepOrder[k] = step

\* steps every run has to go through; the add-photo probe (779-788) and the
\* ownership branch (791-821) are conditional
MandatorySteps ==
    {"is_logged_in", "goto", "owner_probe", "wait_add_photo", "click_add_photo",
     "wait_upload_iframe", "expect_file_chooser", "click_select_files"}

Completed(step) ==
    /\ \E k \in DOMAIN trace : trace[k] = step
    /\ (step = "is_logged_in") => logged_in = "True"
    /\ (step = "wait_add_photo") => u_add = "ok"
    /\ (step = "wait_upload_iframe") => u_iframe = "ok"
    /\ (step = "click_select_files") => u_chooser = "fired"

\* C25: in upload_to_gbp the steps occur in the fixed order (login probe,
\* navigation, owner-check probe/branch, add-photo wait and click,
\* upload-iframe visible, file chooser armed, select-files click, set_files);
\* a step occurs only when every earlier mandatory step completed, and
\* set_files is called at most once.
C25_FixedStepOrder ==
    /\ \A i, j \in DOMAIN trace : i < j => Rank(trace[i]) < Rank(trace[j])
    /\ \A k \in DOMAIN trace : \A m \in MandatorySteps :
          Rank(m) < Rank(trace[k]) => Completed(m)
    /\ Cardinality({k \in DOMAIN trace : trace[k] = "set_files"}) <= 1

C25_Witness ==
    /\ op = "upload_to_gbp" /\ ret = "True"
    /\ trace = <<"is_logged_in", "goto", "owner_probe", "owner_check",
                 "wait_add_photo", "click_add_photo", "wait_upload_iframe",
                 "expect_file_chooser", "click_select_files", "set_files",
                 "wait_iframe_hidden">>

\* ---------------------------------------------------------------- C27
InTrace(step) == \E k \in DOMAIN trace : trace[k] = step

\* C27: when the owner-check control is present, any timeout or exception
\* inside the ownership-confirmation branch is non-fatal: the flow still
\* proceeds to upload_images on the same page.
C27_OwnerBranchNonFatal ==
    (owner_probe = "visible" /\ owner_branch # "none") =>
        /\ pc = "u_wait_add" \/ InTrace("wait_add_photo")
        /\ pc = "u_wait_add" => page = "open"
        /\ ~ InTrace("add_probe")

C27_Witness ==
    /\ owner_branch = "continue_click_error" /\ InTrace("wait_add_photo")
    /\ u_hidden = "hidden" /\ ret = "True"

\* ---------------------------------------------------------------- C28
\* C28 (as stated): upload_images is invoked only after is_logged_in returned
\* True on the same page; when the probe returned False, upload_to_gbp
\* returns False without navigating to the destination URL, without calling
\* upload_images and without writing session state, and the page is closed.
C28_UploadOnlyWhenLoggedIn ==
    /\ InTrace("wait_add_photo") => logged_in = "True"
    /\ (op = "upload_to_gbp" /\ logged_in = "False" /\ ret # "none") =>
           /\ ret = "False"
           /\ ~ InTrace("goto") /\ ~ InTrace("wait_add_photo")
           /\ file = file0
           /\ page = "closed"

\* the parts of C28 that do not depend on a close() succeeding
C28_NoUploadWithoutLogin ==
    /\ InTrace("wait_add_photo") => logged_in = "True"
    /\ (op = "upload_to_gbp" /\ logged_in = "False") =>
           /\ ~ InTrace("goto") /\ ~ InTrace("wait_add_photo")
           /\ file = file0 /\ ret \in {"none", "False", "raise"}

\* ---------------------------------------------------------------- C26
\* C26 (as stated): upload_images never raises to its caller: an unexpected
\* exception at any step is converted to a False result, and diagnostics are
\* captured only if the page exists and is still open.
C26_UploadNeverRaises ==
    /\ ui_pc = "done" =>
           /\ ui_result \in {"True", "False"}
           /\ ui_failed # "none" => ui_result = "False"
    /\ (ui_pc = "finally" /\ ui_page # "open") => ui_diag = {}

\* ---------------------------------------------------------------- C23
\* C23 (as stated): upload_images closes the page on exit iff it created the
\* page itself and never closes a caller-supplied page; in the single-page
\* flow the page created by _async_upload_logic is closed by it on every
\* exit path.
C23_PageClosedByCreator ==
    /\ ui_pc = "done" =>
           /\ ui_supplied => ui_closes = 0
           /\ (~ ui_supplied /\ ui_page # "none") => ui_page = "closed"
    /\ (op = "upload_to_gbp" /\ ret # "none") => page # "open"

\* what holds of a caller-supplied page
C23_SuppliedPageLeftAlone ==
    (ui_supplied /\ ui_pc = "done") =>
        ui_closes = 0 /\ ui_result \in {"True", "False"}

C29_NoPageLeftOpen ==
    /\ ml_pc = "done" => ml_page # "open"
    /\ lg_pc = "done" => lg_page # "open"
    /\ (pr_pc = "done" /\ ~ pr_supplied) => pr_page # "open"

\* ---------------------------------------------------------------- C24
\* a fetch_images call that started the chain, and one that only warned
StartsFetch ==
    /\ mw_workers' = mw_workers + 1 /\ mw_warnings' = mw_warnings
    /\ ~ mw_fetch' /\ ~ mw_upload' /\ ~ mw_select_all' /\ ~ mw_deselect_all'

OnlyWarns ==
    /\ mw_warnings' = mw_warnings + 1 /\ mw_workers' = mw_workers
    /\ UNCHANGED <<mw_fetch, mw_upload, mw_select_all, mw_deselect_all>>

\* C24 (as stated): fetch_images starts a background worker and disables the
\* fetch, upload, select-all and deselect-all buttons iff the HPB URL field
\* is non-empty; with an empty field it only shows a warning, starts no
\* worker and changes no button state.
C24_FetchIffFieldNonEmpty ==
    [][mw_calls' # mw_calls =>
          IF mw_text # <<>> THEN StartsFetch ELSE OnlyWarns]_vars

\* C24 (amended): the same with "non-empty" read after str.strip(): a field
\* holding only whitespace counts as empty.
C24_FetchIffStrippedNonEmpty ==
    [][mw_calls' # mw_calls =>
          IF Strip(mw_text) # <<>> THEN StartsFetch ELSE OnlyWarns]_vars

C24_Witness ==
    /\ mw_last = "warned" /\ mw_arg = <<" ">> /\ mw_warnings = 1
    /\ mw_workers = 2 /\ mw_fetch

\* ---------------------------------------------------------------- C31
\* C31 (as stated): a page other than the first one processed that yields
\* zero matched elements is tolerated: the walk continues and the URLs
\* collected from the pages processed before it are still returned.
C31_LaterEmptyPageTolerated ==
    (ft_logged = "no image element" /\ Len(ft_visited) > 1) =>
        /\ ft_status = "none" \/ ft_result = ft_list
        /\ ft_visited[Len(ft_visited)] > 1 =>
               /\ ft_pc = "page"
               /\ ft_page_num = ft_visited[Len(ft_visited)] - 1

\* what holds: the URLs are lost only when the empty page is page 1
C31_EmptyPageAboveOneTolerated ==
    (ft_logged = "no image element" /\ ft_visited # <<>>
        /\ ft_visited[Len(ft_visited)] > 1) =>
        /\ ft_pc = "page" /\ ft_status = "none"
        /\ ft_page_num = ft_visited[Len(ft_visited)] - 1

\* ---------------------------------------------------------------- C32
\* C32: once the number of collected URLs has reached max_images_to_fetch,
\* fetch_latest_style_images adds no further URL, fetches no further gallery
\* page and inserts no further inter-page delay.
C32_EarlyStop ==
    [][Cardinality(ft_unique) >= ft_max_images =>
          UNCHANGED <<ft_unique, ft_list, ft_visited, ft_sleeps>>]_vars

C32_Witness ==
    /\ ft_pc = "done" /\ ft_status = "returned" /\ ft_max_page = 3
    /\ ft_visited = <<3, 2>> /\ ft_sleeps = 1
    /\ ft_max_images = 2 /\ Len(ft_result) = 2

\* ---------------------------------------------------------------- C33
\* the pages are requested in the order max_page, max_page - 1, ...
WalksDownFromMaxPage ==
    \A k \in DOMAIN ft_visited : ft_visited[k] = ft_max_page - (k - 1)

\* C33 (as stated): the result is the first max_images_to_fetch distinct
\* valid normalized URLs met when visiting pages max_page, ..., 1 and the
\* elements of each page in reverse order; a page whose fetch fails
\* contributes nothing and does not stop the walk.
C33_NewestFirstResult ==
    /\ WalksDownFromMaxPage
    /\ ft_logged = "request failed" =>
           ft_status = "none" \/ Len(ft_visited) = ft_max_page
    /\ (ft_pc = "done" /\ ft_status = "returned" /\ ft_selector) =>
           /\ ft_result = ft_list
           /\ \/ Len(ft_result) = ft_max_images
              \/ Len(ft_visited) = ft_max_page

\* what holds: the same, unless page 1 had no image element
C33_NewestFirstUnlessPageOneEmpty ==
    /\ WalksDownFromMaxPage
    /\ ft_logged = "request failed" =>
           ft_status = "none" \/ Len(ft_visited) = ft_max_page
    /\ (ft_pc = "done" /\ ft_status = "returned" /\ ft_selector
           /\ ~ (ft_logged = "no image element" /\ ft_page_num = 1)) =>
           /\ ft_result = ft_list
           /\ \/ Len(ft_result) = ft_max_images
              \/ Len(ft_visited) = ft_max_page

\* ---------------------------------------------------------------- C34
\* C34: _make_request returns the response of the first successful attempt k
\* (1 <= k <= retries) after exactly k GET attempts and k - 1 delays; no
\* attempt follows a success and no delay follows the final failed attempt.
C34_AttemptsAndDelays ==
    /\ \A k \in DOMAIN rq_log : rq_log[k] = "ok" => k = Len(rq_log)
    /\ (rq_pc = "done" /\ rq_result = "response") =>
           /\ rq_log[Len(rq_log)] = "ok"
           /\ Attempts(rq_log) \in 1..rq_retries
           /\ Sleeps(rq_log) = Attempts(rq_log) - 1
    /\ (rq_pc = "done" /\ rq_result = "None" /\ rq_log # <<>>) =>
           /\ rq_log[Len(rq_log)] # "sleep"
           /\ Sleeps(rq_log) = Attempts(rq_log) - 1

C34_Witness ==
    /\ rq_pc = "done" /\ rq_result = "response" /\ rq_retries = 3
    /\ Attempts(rq_log) = 3 /\ Sleeps(rq_log) = 2

C36_MaxPageAtLeastOne ==
    (pi_pc = "done" /\ pi_status = "returned") => pi_max_page >= 1

\* ---------------------------------------------------------------- C38
\* C38: upload_to_gbp returns True whenever upload_images returned True; a
\* failure while persisting the session state after a completed upload does
\* not turn the reported outcome into False.
C38_SaveFailureKeepsSuccess ==
    (op = "upload_to_gbp" /\ upload_success = "True" /\ ret # "none") =>
        ret # "False"

\* ---------------------------------------------------------------- C37
UploadRunning ==
    {i \in DOMAIN wk_workers :
        wk_workers[i].fn = "upload_to_gbp" /\ wk_workers[i].st = "running"}

C40_SignalOrder ==
    \A i \in DOMAIN wk_workers :
        LET w == wk_workers[i]
            after == IF w.out = "raise" THEN "error" ELSE "result"
        IN  /\ w.st = "pooled" => w.emitted = <<>>
            /\ w.st = "running" => w.emitted = <<"started">>
            /\ w.st = "emitted" => w.emitted = <<"started", after>>
            /\ w.st = "finished" => w.emitted = <<"started", after, "finished">>
            /\ w.st \in {"pooled", "running"} <=> w.out = "none"

C40_Witness ==
    /\ Len(wk_workers) >= 2
    /\ wk_workers[1].emitted = <<"started", "result", "finished">>
    /\ wk_workers[1].out = "True"
    /\ wk_workers[2].emitted = <<"started", "error", "finished">>
    /\ wk_workers[2].out = "raise"

====
